---------------------------- MODULE Spec2Model ----------------------------
(***************************************************************************)
(* A model of the shuimu crawler: the per-board state store                *)
(* (src/src/state.py, StateManager), the asynchronous orchestrator         *)
(* (src/src/crawler.py, Crawler) and the single-board crawler with its     *)
(* document writer (src/crawler.py, ShuimuCrawler).                        *)
(*                                                                         *)
(* Reading of the sources.  Every call site is modelled against the        *)
(* interface it is written for.  state.py holds two generations of the     *)
(* module in one file: the board-keyed StateManager of lines 62-198 with   *)
(* the PostState enumeration of lines 11-17 is the one the orchestrator    *)
(* and the specification describe, and it is the one modelled here; the    *)
(* url-keyed leftovers of lines 38-60 and 200-240 are not.  The            *)
(* orchestrator calls StateManager.get_post_state and set_post_state,      *)
(* which state.py does not define: they are modelled from the              *)
(* specification's StateStore contract and say so where they are defined.  *)
(***************************************************************************)
EXTENDS Integers, Sequences, FiniteSets, TLC

(***************************************************************************)
(* Bounds of the model.                                                    *)
(***************************************************************************)
\* retry_count is not bounded by the code; the actions stop counting here.
MaxRetryCount == 2

Boards == {"b1", "b2"}
PostIds == {"p1", "p2"}
Images == {"i1"}

\* Python's None.
None == "None"

(***************************************************************************)
(* state.py, PostState: the lifecycle states and their persisted values.   *)
(* The orchestrator names the second member PROCESSING; the enumeration    *)
(* spells it DOWNLOADING.                                                  *)
(***************************************************************************)
PostState == {"PENDING", "PROCESSING", "COMPLETED", "FAILED", "RETRY"}

PostStateValue(s) ==
    CASE s = "PENDING" -> "pending"
      [] s = "PROCESSING" -> "downloading"
      [] s = "COMPLETED" -> "completed"
      [] s = "FAILED" -> "failed"
      [] s = "RETRY" -> "retry"

\* PostState(value): the member whose value is the given string.
PostStateOf(v) == CHOOSE s \in PostState : PostStateValue(s) = v

\* PostInfo(url=..., title=...): a fresh record.  url and title are written
\* once and never read by the store; they are left out of the record.
PostInfo ==
    [state |-> "PENDING", retry_count |-> 0, last_attempt |-> None,
     error_message |-> None, downloaded_images |-> <<>>, failed_images |-> <<>>]

NoPosts == [p \in {} |-> PostInfo]

\* BoardState(name=...): last_page 1 and no posts.  loaded tells whether the
\* name is a key of StateManager.boards.
BoardState == [loaded |-> TRUE, last_page |-> 1, posts |-> NoPosts]

NotLoaded == [loaded |-> FALSE, last_page |-> 1, posts |-> NoPosts]

\* A board whose state file does not exist.
NoFile ==
    [exists |-> FALSE, parsable |-> TRUE, last_page |-> 1, posts |-> NoPosts]

\* A state file whose content is not JSON.
Unparsable ==
    [exists |-> TRUE, parsable |-> FALSE, last_page |-> 1, posts |-> NoPosts]

VARIABLES
    boards,     \* StateManager.boards: board name -> BoardState in memory
    files       \* the state directory: board name -> content of <board>.json

storeVars == <<boards, files>>

\* datetime.now().isoformat(): some timestamp.
Now == "ts"

\* Python truthiness of the error argument.
Truthy(error) == error \notin {None, ""}

\* Membership in a Python list.
InList(x, list) == \E k \in 1..Len(list) : list[k] = x

(***************************************************************************)
(* StateManager: every operation maps the store (memory and files) to the  *)
(* store after it.  A store is a record [boards, files].                   *)
(***************************************************************************)
\* The dictionary written for one post (save_board_state, lines 108-117).
PostToJson(post) ==
    [state |-> PostStateValue(post.state), retry_count |-> post.retry_count,
     last_attempt |-> post.last_attempt, error_message |-> post.error_message,
     downloaded_images |-> post.downloaded_images,
     failed_images |-> post.failed_images]

\* The PostInfo built from one persisted dictionary (load_board_state, 89-98).
PostFromJson(data) ==
    [state |-> PostStateOf(data.state), retry_count |-> data.retry_count,
     last_attempt |-> data.last_attempt, error_message |-> data.error_message,
     downloaded_images |-> data.downloaded_images,
     failed_images |-> data.failed_images]

\* Lines 82-84: json.load of a file that is not JSON raises, and nothing in
\* load_board_state catches it.
load_raises(fs, board_name) ==
    fs[board_name].exists /\ ~fs[board_name].parsable

load_board_state(fs, board_name) ==
    IF fs[board_name].exists
    THEN [loaded |-> TRUE, last_page |-> fs[board_name].last_page,
          posts |-> [p \in DOMAIN fs[board_name].posts |->
                        PostFromJson(fs[board_name].posts[p])]]
    ELSE BoardState

\* The files after a mutation that forgets to write the board back.
save_board_state_skipped(fs, board_name, board_state) == fs

save_board_state(fs, board_name, board_state) ==
    [fs EXCEPT ![board_name] =
        [exists |-> TRUE, parsable |-> TRUE,
         last_page |-> board_state.last_page,
         posts |-> [p \in DOMAIN board_state.posts |->
                       PostToJson(board_state.posts[p])]]]

get_board_state(sm, board_name) ==
    IF sm.boards[board_name].loaded
    THEN sm
    ELSE [sm EXCEPT !.boards[board_name] = load_board_state(sm.files, board_name)]

\* The record after a transition that resets the counter instead of adding.
TransitionedPost_reset(post, state, error) ==
    IF Truthy(error)
    THEN [post EXCEPT !.state = state, !.last_attempt = Now,
                      !.error_message = error, !.retry_count = 1]
    ELSE [post EXCEPT !.state = state, !.last_attempt = Now, !.retry_count = 0]

\* Lines 136-140: the record after update_post_state.
TransitionedPost(post, state, error) ==
    IF Truthy(error)
    THEN [post EXCEPT !.state = state, !.last_attempt = Now,
                      !.error_message = error, !.retry_count = @ + 1]
    ELSE [post EXCEPT !.state = state, !.last_attempt = Now]

\* An update that starts a record for a post that has none.
update_post_state_creating(sm, board_name, post_id, state, error) ==
    LET s1 == get_board_state(sm, board_name)
        board_state == s1.boards[board_name]
        after == [board_state EXCEPT !.posts =
                     [p \in DOMAIN board_state.posts \cup {post_id} |->
                         IF p # post_id THEN board_state.posts[p]
                         ELSE TransitionedPost(
                                  IF p \in DOMAIN board_state.posts
                                  THEN board_state.posts[p] ELSE PostInfo,
                                  state, error)]]
    IN  [boards |-> [s1.boards EXCEPT ![board_name] = after],
         files |-> save_board_state(s1.files, board_name, after)]

update_post_state(sm, board_name, post_id, state, error) ==
    LET s1 == get_board_state(sm, board_name)
        board_state == s1.boards[board_name]
    IN  IF post_id \in DOMAIN board_state.posts
        THEN LET after == [board_state EXCEPT !.posts[post_id] =
                              TransitionedPost(@, state, error)]
             IN  [boards |-> [s1.boards EXCEPT ![board_name] = after],
                  files |-> save_board_state(s1.files, board_name, after)]
        ELSE s1

\* An add_post that starts the board's posts afresh with the new post.
add_post_alone(sm, board_name, post_id) ==
    LET s1 == get_board_state(sm, board_name)
        board_state == s1.boards[board_name]
    IN  IF post_id \notin DOMAIN board_state.posts
        THEN LET after == [board_state EXCEPT !.posts =
                              [p \in {post_id} |-> PostInfo]]
             IN  [boards |-> [s1.boards EXCEPT ![board_name] = after],
                  files |-> save_board_state(s1.files, board_name, after)]
        ELSE s1

\* add_post(board_name, post_id, url, title), lines 143-148.
add_post(sm, board_name, post_id) ==
    LET s1 == get_board_state(sm, board_name)
        board_state == s1.boards[board_name]
    IN  IF post_id \notin DOMAIN board_state.posts
        THEN LET after == [board_state EXCEPT !.posts =
                              [p \in DOMAIN board_state.posts \cup {post_id} |->
                                  IF p = post_id THEN PostInfo
                                  ELSE board_state.posts[p]]]
             IN  [boards |-> [s1.boards EXCEPT ![board_name] = after],
                  files |-> save_board_state(s1.files, board_name, after)]
        ELSE s1

\* The eligibility test with the retry bound off by one.
Eligible_offbyone(post, max_retries) ==
    IF post.state \in {"COMPLETED"} THEN FALSE
    ELSE IF post.state \in {"FAILED", "RETRY"}
         THEN post.retry_count <= max_retries
         ELSE TRUE

\* Lines 157-164: the decision of should_process_post for an existing record.
Eligible(post, max_retries) ==
    IF post.state \in {"COMPLETED"} THEN FALSE
    ELSE IF post.state \in {"FAILED", "RETRY"}
         THEN post.retry_count < max_retries
         ELSE TRUE

should_process_post(sm, board_name, post_id, max_retries) ==
    LET board_state == get_board_state(sm, board_name).boards[board_name]
    IN  IF post_id \notin DOMAIN board_state.posts
        THEN TRUE
        ELSE Eligible(board_state.posts[post_id], max_retries)

\* A recording that appends without looking for the entry.
add_downloaded_image_always(sm, board_name, post_id, image_path) ==
    LET s1 == get_board_state(sm, board_name)
        board_state == s1.boards[board_name]
    IN  IF post_id \in DOMAIN board_state.posts
        THEN LET after == [board_state EXCEPT
                              !.posts[post_id].downloaded_images =
                                  Append(@, image_path)]
             IN  [boards |-> [s1.boards EXCEPT ![board_name] = after],
                  files |-> save_board_state(s1.files, board_name, after)]
        ELSE s1

add_downloaded_image(sm, board_name, post_id, image_path) ==
    LET s1 == get_board_state(sm, board_name)
        board_state == s1.boards[board_name]
    IN  IF post_id \in DOMAIN board_state.posts
           /\ ~InList(image_path, board_state.posts[post_id].downloaded_images)
        THEN LET after == [board_state EXCEPT
                              !.posts[post_id].downloaded_images =
                                  Append(@, image_path)]
             IN  [boards |-> [s1.boards EXCEPT ![board_name] = after],
                  files |-> save_board_state(s1.files, board_name, after)]
        ELSE s1

add_failed_image(sm, board_name, post_id, image_url) ==
    LET s1 == get_board_state(sm, board_name)
        board_state == s1.boards[board_name]
    IN  IF post_id \in DOMAIN board_state.posts
           /\ ~InList(image_url, board_state.posts[post_id].failed_images)
        THEN LET after == [board_state EXCEPT
                              !.posts[post_id].failed_images =
                                  Append(@, image_url)]
             IN  [boards |-> [s1.boards EXCEPT ![board_name] = after],
                  files |-> save_board_state(s1.files, board_name, after)]
        ELSE s1

\* The store as one value, and the assignment of a store to the variables.
Store == [boards |-> boards, files |-> files]

SetStore(sm) == boards' = sm.boards /\ files' = sm.files


(***************************************************************************)
(* StateManager.get_post_state and set_post_state: called by the           *)
(* orchestrator (crawler.py 216, 459-486), defined nowhere in state.py.    *)
(* Modelled from the StateStore contract of the specification: the state   *)
(* of the post's record, and transition(board, id, newState, error?),      *)
(* which on a failing transition counts a retry and records the error and  *)
(* persists the board.  The orchestrator never calls add_post, so the      *)
(* first transition of a post puts its record in the board (add_post).     *)
(***************************************************************************)
get_post_state(sm, board_name, post_id) ==
    LET board_state == get_board_state(sm, board_name).boards[board_name]
    IN  IF post_id \in DOMAIN board_state.posts
        THEN board_state.posts[post_id].state
        ELSE None

set_post_state(sm, board_name, post_id, state) ==
    update_post_state(add_post(sm, board_name, post_id), board_name, post_id,
                      state, IF state = "FAILED" THEN "failed" ELSE None)

(***************************************************************************)
(* The orchestrator, src/src/crawler.py.                                   *)
(***************************************************************************)
\* The remote board has no post beyond this listing page.
MaxPages == 2
\* The rows of a listing page: at most as many as there are posts.
Rows == 1..Cardinality(PostIds)
\* Images found in one detail page.
MaxImages == 1

\* A listed url from which _extract_post_id extracts nothing.
NoId == ""

\* The listing pages the remote board may answer with.
Listings ==
    UNION {[1..n -> PostIds \cup {NoId}] : n \in {0} \cup Rows}

\* Configurations accepted by CrawlerConfig and BoardConfig; max_pages and
\* max_posts 0 stand for None (no limit; the code tests their truthiness).
Configs ==
    [boards : {{"b1"}},
     max_concurrent_tasks : {1, 2},
     max_retries : {0, 1, 2},
     max_pages : {0, 1},
     max_posts : {0, 1},
     save_images : {TRUE}]

\* State files a run may start from: per post no record, a completed
\* record, or a failed record that has used up its retries.
SeedPosts ==
    {[state |-> "completed", retry_count |-> 0, last_attempt |-> Now,
      error_message |-> None, downloaded_images |-> <<>>,
      failed_images |-> <<>>],
     [state |-> "failed", retry_count |-> MaxRetryCount, last_attempt |-> Now,
      error_message |-> "failed", downloaded_images |-> <<>>,
      failed_images |-> <<>>]}

SeedFiles ==
    {NoFile, Unparsable} \cup
    UNION {{[exists |-> TRUE, parsable |-> TRUE, last_page |-> 1,
             posts |-> f] :
                f \in [ids -> SeedPosts]} : ids \in (SUBSET PostIds) \ {{}}}

\* Crawler.__init__, lines 46-48: the state of every configured board is
\* loaded, and a load that raises ends the construction.
init_raises(fs, board_names) == \E b \in board_names : load_raises(fs, b)

VARIABLES
    config,       \* the CrawlerConfig of the run
    semaphore,    \* free slots of Crawler.semaphore
    board_posts,  \* Crawler.board_posts: posts dispatched per board
    crawl,        \* crawl_board per board: [pc, page, attempt]
    tasks,        \* the post tasks of the page being crawled, per board
    seed,         \* the state files the run started from
    dispatched,   \* per board, the posts a task was created for
    requested,    \* the <<board, post>> a detail or image request was sent for
    documents     \* per board, the posts whose document was written

crawlVars ==
    <<config, semaphore, board_posts, crawl, tasks, seed, dispatched,
      requested, documents>>

\* ShuimuCrawler (src/crawler.py), the single-board crawler: one post on its
\* way through process_post.
VARIABLES
    shuimu,            \* process_post: [pc, content, image_urls, image_paths]
    image_files,       \* the image files on disk under images_dir
    downloaded_files,  \* ShuimuCrawler.downloaded_files: titles written
    failed_images,     \* ShuimuCrawler.failed_images: urls recorded as failed
    failed_posts,      \* ShuimuCrawler.failed_posts: posts recorded as failed
    markdown,          \* the document save_to_file wrote for the post
    shuimu_pages,      \* crawl: per page, its crawl_page task
    downloads          \* the download_image calls gathered for one post

shuimuVars ==
    <<shuimu, image_files, downloaded_files, failed_images, failed_posts,
      markdown, shuimu_pages, downloads>>

\* ShuimuCrawler.__init__ before any post is processed, with nothing on disk.
ShuimuOff ==
    /\ shuimu = [pc |-> "off", content |-> <<>>, image_urls |-> <<>>,
                 image_paths |-> <<>>, document |-> "absent"]
    /\ image_files = {}
    /\ downloaded_files = {}
    /\ failed_images = {}
    /\ failed_posts = {}
    /\ markdown = <<>>
    /\ shuimu_pages = <<>>
    /\ downloads = <<>>

vars == <<storeVars, crawlVars, shuimuVars>>

\* Network requests in flight: listing, detail and image requests.
InFlight ==
    Cardinality({b \in Boards : crawl[b].pc = "fetch_inflight"})
    + Cardinality({<<b, k>> \in Boards \X Rows :
                      /\ k <= Len(tasks[b])
                      /\ tasks[b][k].pc \in {"fetch_inflight", "image_inflight"}})

\* _fetch_page, line 118: range(max_retries) is empty when max_retries is 0.
fetch_has_attempt(max_retries) == 0 < max_retries

\* _fetch_page, lines 118 and 160: another attempt follows a failed one.
fetch_retries(attempt, max_retries) == attempt < max_retries - 1

\* A request that is sent although no slot is free.
slot_taken_unchecked(free) == free - 1

\* _fetch_page, line 120 (async with self.semaphore): the free slots after
\* a fetch has asked for one; a fetch that finds none waits.
slot_taken(free) == IF free > 0 THEN free - 1 ELSE free

\* A slot that stays with the fetch after its attempt ended.
slot_held(free) == free

\* _fetch_page, lines 120-153: leaving the "async with self.semaphore" block,
\* by a return, by falling out of it or by an exception, frees the slot
\* before the handlers and the sleep of line 161 run.
slot_released(free) == free + 1

\* Where a fetch stands after asking for a slot.
fetch_begins(free) == IF free > 0 THEN "fetch_inflight" ELSE "fetch_wait"

\* A crawl that dispatches a task whatever the state of the post.
already_crawled_never(state) == FALSE

\* crawl_board, line 217.
already_crawled(state) == state = "COMPLETED"

\* A limit that lets one post too many through.
posts_limit_reached_late(max_posts, count) ==
    max_posts # 0 /\ count > max_posts

\* crawl_board, lines 181 and 206: board.max_posts is set and the posts
\* dispatched for the board have reached it.
posts_limit_reached(max_posts, count) ==
    max_posts # 0 /\ count >= max_posts

\* crawl_board, lines 203-226: the loop over the posts of a listing, from
\* row k on, with count posts dispatched so far and acc the tasks created.
RECURSIVE dispatch_posts(_, _, _, _, _, _, _)
dispatch_posts(sm, board_name, max_posts, posts, k, count, acc) ==
    IF k > Len(posts) \/ posts_limit_reached(max_posts, count)
    THEN [sm |-> sm, board_posts |-> count, tasks |-> acc]
    ELSE IF posts[k] = NoId
    THEN dispatch_posts(sm, board_name, max_posts, posts, k + 1, count, acc)
    ELSE IF already_crawled(get_post_state(sm, board_name, posts[k]))
    THEN dispatch_posts(get_board_state(sm, board_name), board_name,
                        max_posts, posts, k + 1, count, acc)
    ELSE dispatch_posts(get_board_state(sm, board_name), board_name,
                        max_posts, posts, k + 1, count + 1,
                        Append(acc, [post_id |-> posts[k], pc |-> "created",
                                     attempt |-> 0, images |-> 0,
                                     linked |-> 0]))

\* A page loop that goes round again where it should exit.
Stop_continue(b) == crawl' = [crawl EXCEPT ![b].pc = "loop"]

Stop(b) == crawl' = [crawl EXCEPT ![b].pc = "done"]

\* crawl_board, lines 174-191: the top of the page loop, up to the first
\* attempt of the listing fetch, whose request is sent at once when a slot
\* is free.
BoardLoop(b) ==
    /\ crawl[b].pc = "loop"
    /\ IF \/ config.max_pages # 0 /\ crawl[b].page > config.max_pages
          \/ posts_limit_reached(config.max_posts, board_posts[b])
          \/ ~fetch_has_attempt(config.max_retries)
       THEN Stop(b) /\ UNCHANGED semaphore
       ELSE /\ crawl' = [crawl EXCEPT ![b].pc = fetch_begins(semaphore),
                                      ![b].attempt = 0]
            /\ semaphore' = slot_taken(semaphore)
    /\ UNCHANGED shuimuVars
    /\ UNCHANGED <<storeVars, config, board_posts, tasks, seed, dispatched,
                   requested, documents>>

\* _fetch_page, lines 120-126: the listing request takes a slot and is sent.
BoardAcquire(b) ==
    /\ crawl[b].pc = "fetch_wait"
    /\ semaphore > 0
    /\ semaphore' = slot_taken(semaphore)
    /\ crawl' = [crawl EXCEPT ![b].pc = "fetch_inflight"]
    /\ UNCHANGED shuimuVars
    /\ UNCHANGED <<storeVars, config, board_posts, tasks, seed, dispatched,
                   requested, documents>>

\* _fetch_page, lines 152-163: the listing request failed (status, timeout,
\* exception); crawl_board, lines 189-191, stops when no attempt is left.
BoardFetchFailed(b) ==
    /\ crawl[b].pc = "fetch_inflight"
    /\ semaphore' = slot_released(semaphore)
    /\ IF fetch_retries(crawl[b].attempt, config.max_retries)
       THEN crawl' = [crawl EXCEPT ![b].pc = "fetch_wait", ![b].attempt = @ + 1]
       ELSE Stop(b)
    /\ UNCHANGED shuimuVars
    /\ UNCHANGED <<storeVars, config, board_posts, tasks, seed, dispatched,
                   requested, documents>>

\* crawl_board, lines 193-235: the listing arrived; its posts are parsed and
\* dispatched, and the page's tasks are awaited.
BoardListed(b, posts) ==
    /\ crawl[b].pc = "fetch_inflight"
    /\ crawl[b].page > MaxPages => posts = <<>>
    /\ semaphore' = slot_released(semaphore)
    /\ IF posts = <<>>
       THEN /\ Stop(b)
            /\ UNCHANGED <<storeVars, board_posts, tasks, dispatched>>
       ELSE LET d == dispatch_posts(Store, b, config.max_posts, posts, 1,
                                    board_posts[b], <<>>)
            IN  /\ SetStore(d.sm)
                /\ board_posts' = [board_posts EXCEPT ![b] = d.board_posts]
                /\ tasks' = [tasks EXCEPT ![b] = d.tasks]
                /\ dispatched' = [dispatched EXCEPT ![b] =
                       @ \cup {d.tasks[k].post_id : k \in 1..Len(d.tasks)}]
                /\ IF d.tasks = <<>>
                   THEN Stop(b)
                   ELSE crawl' = [crawl EXCEPT ![b].pc = "gather"]
    /\ UNCHANGED shuimuVars
    /\ UNCHANGED <<config, seed, requested, documents>>

\* crawl_board, lines 228-240: every task of the page is done; next page.
BoardGathered(b) ==
    /\ crawl[b].pc = "gather"
    /\ \A k \in 1..Len(tasks[b]) : tasks[b][k].pc = "done"
    /\ crawl' = [crawl EXCEPT ![b].pc = "loop", ![b].page = @ + 1]
    /\ UNCHANGED shuimuVars
    /\ UNCHANGED <<storeVars, config, semaphore, board_posts, tasks, seed,
                   dispatched, requested, documents>>


(***************************************************************************)
(* _process_post, lines 449-486, and _save_post, lines 354-432: the task   *)
(* of post k of board b's page.                                            *)
(***************************************************************************)
Task(b, k) == tasks[b][k]

SetTask(b, k, pc) == tasks' = [tasks EXCEPT ![b][k].pc = pc]

\* The task ends with the post in the given state; the document being
\* assembled is a local of _save_post and goes with it.
Finish(b, k, state) ==
    /\ tasks' = [tasks EXCEPT ![b][k].pc = "done", ![b][k].linked = 0]
    /\ SetStore(set_post_state(Store, b, Task(b, k).post_id, state))

\* A task that returns on a failed fetch without recording the failure.
fetch_failure_state_kept == "PROCESSING"

\* Lines 465 and 474: the state set when the fetch or the extraction fails.
fetch_failure_state == "FAILED"

\* No task of the board's page is still to run its first step: the tasks
\* created by crawl_board run, in the order of their creation, as soon as
\* crawl_board awaits them, before any response is handled.
AllStarted(b) == \A k \in 1..Len(tasks[b]) : tasks[b][k].pc # "created"

\* Lines 459-462: the post is marked as being processed and the detail
\* fetch starts; its request is sent at once when a slot is free.
TaskStart(b, k) ==
    /\ k \in 1..Len(tasks[b])
    /\ Task(b, k).pc = "created"
    /\ \A j \in 1..(k - 1) : tasks[b][j].pc # "created"
    /\ IF fetch_has_attempt(config.max_retries)
       THEN /\ SetTask(b, k, fetch_begins(semaphore))
            /\ semaphore' = slot_taken(semaphore)
            /\ requested' = IF semaphore > 0
                            THEN requested \cup {<<b, Task(b, k).post_id>>}
                            ELSE requested
            /\ SetStore(set_post_state(Store, b, Task(b, k).post_id,
                                       "PROCESSING"))
       ELSE /\ SetTask(b, k, "done")
            /\ UNCHANGED <<semaphore, requested>>
            /\ SetStore(set_post_state(
                   set_post_state(Store, b, Task(b, k).post_id, "PROCESSING"),
                   b, Task(b, k).post_id, fetch_failure_state))
    /\ UNCHANGED shuimuVars
    /\ UNCHANGED <<config, board_posts, crawl, seed, dispatched, documents>>

\* _fetch_page, lines 120-126: the detail request takes a slot and is sent.
TaskAcquire(b, k) ==
    /\ k \in 1..Len(tasks[b])
    /\ AllStarted(b)
    /\ Task(b, k).pc = "fetch_wait"
    /\ semaphore > 0
    /\ semaphore' = slot_taken(semaphore)
    /\ SetTask(b, k, "fetch_inflight")
    /\ requested' = requested \cup {<<b, Task(b, k).post_id>>}
    /\ UNCHANGED shuimuVars
    /\ UNCHANGED <<storeVars, config, board_posts, crawl, seed, dispatched,
                   documents>>

\* _fetch_page, lines 152-163, and _process_post, lines 463-466: the detail
\* request failed; the post fails when no attempt is left.
TaskFetchFailed(b, k) ==
    /\ k \in 1..Len(tasks[b])
    /\ AllStarted(b)
    /\ Task(b, k).pc = "fetch_inflight"
    /\ semaphore' = slot_released(semaphore)
    /\ IF fetch_retries(Task(b, k).attempt, config.max_retries)
       THEN /\ tasks' = [tasks EXCEPT ![b][k].pc = "fetch_wait",
                                      ![b][k].attempt = @ + 1]
            /\ UNCHANGED storeVars
       ELSE Finish(b, k, fetch_failure_state)
    /\ UNCHANGED shuimuVars
    /\ UNCHANGED <<config, board_posts, crawl, seed, dispatched, requested,
                   documents>>

\* Lines 469-475: the detail page arrived and nothing could be extracted.
TaskExtractionFailed(b, k) ==
    /\ k \in 1..Len(tasks[b])
    /\ AllStarted(b)
    /\ Task(b, k).pc = "fetch_inflight"
    /\ semaphore' = slot_released(semaphore)
    /\ Finish(b, k, fetch_failure_state)
    /\ UNCHANGED shuimuVars
    /\ UNCHANGED <<config, board_posts, crawl, seed, dispatched, requested,
                   documents>>

\* The step _save_post takes once the metadata file is written: with images
\* to save, the first one is requested; without, the document is written.
after_metadata(n, save_images) ==
    IF n > 0 /\ save_images THEN "image_inflight" ELSE "write_md"

\* Lines 469-478 and 362-404: the detail page arrived with n images in its
\* content; _save_post writes the metadata file (save_json_file is a plain
\* function: no other task runs meanwhile) and, with images to save, sends
\* the request for the first one without taking a slot (line 404).
TaskExtracted(b, k, n) ==
    /\ k \in 1..Len(tasks[b])
    /\ AllStarted(b)
    /\ Task(b, k).pc = "fetch_inflight"
    /\ semaphore' = slot_released(semaphore)
    /\ tasks' = [tasks EXCEPT
                    ![b][k].pc = after_metadata(n, config.save_images),
                    ![b][k].images = n]
    /\ UNCHANGED shuimuVars
    /\ UNCHANGED <<storeVars, config, board_posts, crawl, seed, dispatched,
                   requested, documents>>

\* Lines 380, 431-432 and 481: the detail page arrived and writing the
\* metadata file raised; _save_post logs the error and returns, and the
\* post is marked completed.
TaskMetadataFailed(b, k) ==
    /\ k \in 1..Len(tasks[b])
    /\ AllStarted(b)
    /\ Task(b, k).pc = "fetch_inflight"
    /\ semaphore' = slot_released(semaphore)
    /\ Finish(b, k, "COMPLETED")
    /\ UNCHANGED shuimuVars
    /\ UNCHANGED <<config, board_posts, crawl, seed, dispatched, requested,
                   documents>>

\* Lines 424-432 and 481: writing the document raised; the error is logged
\* and swallowed, and the post is marked completed.
TaskDocumentFailed(b, k) ==
    /\ k \in 1..Len(tasks[b])
    /\ AllStarted(b)
    /\ Task(b, k).pc = "write_md"
    /\ Finish(b, k, "COMPLETED")
    /\ UNCHANGED shuimuVars
    /\ UNCHANGED <<config, semaphore, board_posts, crawl, seed, dispatched,
                   requested, documents>>

\* Lines 401-422: an image request ended.  A saved image (status 200 and the
\* file written) is linked in the document; a bad status is passed over and
\* an exception is logged, and the loop survives both.  The next image is
\* requested, or the document is written after the last one.
image_linked(linked, saved) == IF saved THEN linked + 1 ELSE linked

TaskImageDone(b, k, saved) ==
    /\ k \in 1..Len(tasks[b])
    /\ AllStarted(b)
    /\ Task(b, k).pc = "image_inflight"
    /\ IF Task(b, k).images > 1
       THEN tasks' = [tasks EXCEPT
                         ![b][k].images = @ - 1,
                         ![b][k].linked = image_linked(@, saved)]
       ELSE tasks' = [tasks EXCEPT
                         ![b][k].pc = "write_md", ![b][k].images = 0,
                         ![b][k].linked = image_linked(@, saved)]
    /\ UNCHANGED shuimuVars
    /\ UNCHANGED <<storeVars, config, semaphore, board_posts, crawl, seed,
                   dispatched, requested, documents>>

\* Lines 424-429 and 481: the document is written and the post completed.
TaskDocumentWritten(b, k) ==
    /\ k \in 1..Len(tasks[b])
    /\ AllStarted(b)
    /\ Task(b, k).pc = "write_md"
    /\ documents' = [documents EXCEPT ![b] = @ \cup {Task(b, k).post_id}]
    /\ Finish(b, k, "COMPLETED")
    /\ UNCHANGED shuimuVars
    /\ UNCHANGED <<config, semaphore, board_posts, crawl, seed, dispatched,
                   requested>>

(***************************************************************************)
(* Crawler.start, lines 85-94: one crawl_board per configured board, all   *)
(* sharing one semaphore; the state manager starts with nothing loaded.    *)
(* When the constructor raised there is no crawler and no crawl runs.      *)
(***************************************************************************)
Init ==
    /\ config \in Configs
    /\ seed \in [Boards -> SeedFiles]
    /\ \A b \in Boards \ config.boards : seed[b] = NoFile
    /\ files = seed
    /\ boards = [b \in Boards |-> NotLoaded]
    /\ semaphore = config.max_concurrent_tasks
    /\ board_posts = [b \in Boards |-> 0]
    /\ crawl = [b \in Boards |->
                   [pc |-> IF b \notin config.boards THEN "off"
                           ELSE IF init_raises(seed, config.boards)
                           THEN "raised" ELSE "loop",
                    page |-> 1, attempt |-> 0]]
    /\ tasks = [b \in Boards |-> <<>>]
    /\ dispatched = [b \in Boards |-> {}]
    /\ requested = {}
    /\ documents = [b \in Boards |-> {}]
    /\ ShuimuOff

Next ==
    \E b \in Boards :
        \/ BoardLoop(b)
        \/ BoardAcquire(b)
        \/ BoardFetchFailed(b)
        \/ \E posts \in Listings : BoardListed(b, posts)
        \/ BoardGathered(b)
        \/ \E k \in Rows :
            \/ TaskStart(b, k)
            \/ TaskAcquire(b, k)
            \/ TaskFetchFailed(b, k)
            \/ TaskExtractionFailed(b, k)
            \/ \E n \in 0..MaxImages : TaskExtracted(b, k, n)
            \/ TaskMetadataFailed(b, k)
            \/ TaskDocumentFailed(b, k)
            \/ \E saved \in BOOLEAN : TaskImageDone(b, k, saved)
            \/ TaskDocumentWritten(b, k)

Spec == Init /\ [][Next]_vars

\* A first run (no state file) with one slot, retries and no limit of
\* posts.  The
\* event loop runs every coroutine that can run, and every request that was
\* sent ends, with a response, an error or the timeout of line 125: a step
\* that can be taken is taken in the end.
InitFair ==
    /\ Init
    /\ config.max_concurrent_tasks = 1
    /\ config.max_retries = 2
    /\ config.max_posts = 0
    /\ seed = [b \in Boards |-> NoFile]

SpecFair == InitFair /\ [][Next]_vars /\ WF_vars(Next)


(***************************************************************************)
(* The state store on its own: a client calls the operations of            *)
(* StateManager in any order and with any arguments, and the process may   *)
(* restart (a new StateManager over the same state directory).             *)
(***************************************************************************)
Errors == {None, "err"}

\* The configuration of a process that only uses the store.
IdleConfig ==
    [boards |-> {"b1"}, max_concurrent_tasks |-> 1, max_retries |-> 0,
     max_pages |-> 0, max_posts |-> 0, save_images |-> TRUE]

\* The board as the store answers for it: from memory, or loaded from file.
BoardOf(sm, b) == get_board_state(sm, b).boards[b]

HasRecord(sm, b, id) == id \in DOMAIN BoardOf(sm, b).posts

RecordOf(sm, b, id) == BoardOf(sm, b).posts[id]

StoreUpdatePostState(b, id, state, error) ==
    /\ (HasRecord(Store, b, id) /\ Truthy(error))
           => RecordOf(Store, b, id).retry_count < MaxRetryCount
    /\ SetStore(update_post_state(Store, b, id, state, error))
    /\ UNCHANGED <<crawlVars, shuimuVars>>

StoreAddPost(b, id) ==
    /\ SetStore(add_post(Store, b, id))
    /\ UNCHANGED <<crawlVars, shuimuVars>>

StoreAddDownloadedImage(b, id, image_path) ==
    /\ SetStore(add_downloaded_image(Store, b, id, image_path))
    /\ UNCHANGED <<crawlVars, shuimuVars>>

StoreAddFailedImage(b, id, image_url) ==
    /\ SetStore(add_failed_image(Store, b, id, image_url))
    /\ UNCHANGED <<crawlVars, shuimuVars>>

\* should_process_post answers and leaves the board loaded.
StoreShouldProcessPost(b, id) ==
    /\ SetStore(get_board_state(Store, b))
    /\ UNCHANGED <<crawlVars, shuimuVars>>

\* StateManager.__init__, lines 65-73: a new manager has loaded nothing.
StoreRestart ==
    /\ boards' = [b \in Boards |-> NotLoaded]
    /\ UNCHANGED <<files, crawlVars, shuimuVars>>

InitStore ==
    /\ config = IdleConfig
    /\ seed = [b \in Boards |-> NoFile]
    /\ files = seed
    /\ boards = [b \in Boards |-> NotLoaded]
    /\ semaphore = config.max_concurrent_tasks
    /\ board_posts = [b \in Boards |-> 0]
    /\ crawl = [b \in Boards |-> [pc |-> "off", page |-> 1, attempt |-> 0]]
    /\ tasks = [b \in Boards |-> <<>>]
    /\ dispatched = [b \in Boards |-> {}]
    /\ requested = {}
    /\ documents = [b \in Boards |-> {}]
    /\ ShuimuOff

NextStore ==
    \/ \E b \in config.boards, id \in PostIds, state \in PostState,
          error \in Errors : StoreUpdatePostState(b, id, state, error)
    \/ \E b \in config.boards, id \in PostIds : StoreAddPost(b, id)
    \/ \E b \in config.boards, id \in PostIds, image \in Images :
           StoreAddDownloadedImage(b, id, image)
    \/ \E b \in config.boards, id \in PostIds, image \in Images :
           StoreAddFailedImage(b, id, image)
    \/ \E b \in config.boards, id \in PostIds : StoreShouldProcessPost(b, id)
    \/ StoreRestart

SpecStore == InitStore /\ [][NextStore]_vars

(***************************************************************************)
(* The image lists of the state store: a client adds posts and records     *)
(* image outcomes, for two images, in any order; the process may restart.  *)
(***************************************************************************)
ImageEntries == {"i1", "i2"}

NextStoreImages ==
    \/ \E b \in config.boards, id \in PostIds : StoreAddPost(b, id)
    \/ \E b \in config.boards, id \in PostIds, image \in ImageEntries :
           StoreAddDownloadedImage(b, id, image)
    \/ \E b \in config.boards, id \in PostIds, image \in ImageEntries :
           StoreAddFailedImage(b, id, image)
    \/ StoreRestart

SpecStoreImages == InitStore /\ [][NextStoreImages]_vars

\* The store after the step.
StoreAfter == [boards |-> boards', files |-> files']


(***************************************************************************)
(* ShuimuCrawler.process_post (src/crawler.py): one post is parsed, its    *)
(* images are downloaded concurrently, and the document is written.  The   *)
(* content cell of the detail page is a sequence of elements, text or img; *)
(* the body text is a sequence of tokens, text, placeholder or image       *)
(* reference.  An image url stands for its base name, so that distinct     *)
(* urls have distinct files.  Few enough images are downloaded at a time   *)
(* that the semaphore of 20 slots never makes a download wait.             *)
(***************************************************************************)
MaxCell == 3

Urls == {"u0", "u1", "u2"}

ShuimuPost == [post_id |-> "p1", title |-> "p1", url |-> "p1"]

Elements ==
    {[tag |-> "text", src |-> None]}
        \cup {[tag |-> "img", src |-> u] : u \in Urls \cup {None}}

Cells == UNION {[1..n -> Elements] : n \in 0..MaxCell}

\* The tokens of a body text.
TextToken == [kind |-> "text", index |-> 0, path |-> <<>>]

\* f'__IMG_PLACEHOLDER_{i}__'
Placeholder(i) == [kind |-> "placeholder", index |-> i, path |-> <<>>]

\* f'\n![图片{i+1}]({image_path})\n'
MarkdownImage(i, image_path) ==
    [kind |-> "image", index |-> i + 1, path |-> image_path]

\* What download_image returns for a failed download.
NoPath == <<>>

\* A download still in flight.
Pending == <<"pending">>

\* The path of the file download_image writes: images/<post_id>/<basename>.
ImagePath(post_id, image_url) == <<"images", post_id, image_url>>

RECURSIVE parse_cell(_, _, _, _, _)
\* The loop over the img tags of the cell and the collection of its text:
\* j walks the elements, i counts the img tags met so far.
parse_cell(cell, j, i, content, images) ==
    IF j > Len(cell)
    THEN [content |-> content, images |-> images]
    ELSE IF cell[j].tag = "img"
         THEN IF cell[j].src # None
              THEN parse_cell(cell, j + 1, i + 1,
                              Append(content, Placeholder(i)),
                              Append(images, cell[j].src))
              ELSE parse_cell(cell, j + 1, i + 1, content, images)
         ELSE parse_cell(cell, j + 1, i, Append(content, TextToken), images)

\* parse_detail_page on a page whose content cell was found.
parse_detail_page(cell) == parse_cell(cell, 1, 0, <<>>, <<>>)

RECURSIVE replace_placeholders(_, _, _)
\* The loop of save_to_file over enumerate(valid_image_paths), from index i:
\* str.replace puts the i-th valid image wherever placeholder i stands.
replace_placeholders(processed_content, valid_image_paths, i) ==
    IF i >= Len(valid_image_paths)
    THEN processed_content
    ELSE replace_placeholders(
             [j \in DOMAIN processed_content |->
                 IF processed_content[j] = Placeholder(i)
                 THEN MarkdownImage(i, valid_image_paths[i + 1])
                 ELSE processed_content[j]],
             valid_image_paths, i + 1)

\* Image paths that are given and whose file exists.
IsValidImage(image_path) == image_path # NoPath /\ image_path \in image_files

\* save_to_file: the markdown written for the content and the image paths.
save_to_file(content, image_paths) ==
    replace_placeholders(content, SelectSeq(image_paths, IsValidImage), 0)

\* The filtering of process_post: the paths of the images that were
\* downloaded, failed downloads left out.
IsPath(image_path) == image_path # NoPath

\* A download that sends its request whether or not the file is there.
download_begins_always(image_path, on_disk) == Pending

\* download_image, lines 222-233: what a download has to return once it has
\* run up to its first wait: the path of the file when the file is already
\* on disk, and nothing yet when its request has been sent.
download_begins(image_path, on_disk) ==
    IF image_path \in on_disk THEN image_path ELSE Pending

\* process_post up to the gather of the downloads: the page is parsed, and
\* every download_image runs up to its request; an image whose file is
\* already on disk is returned at once and is no longer a failed image.
ShuimuProcessPost(cell) ==
    /\ shuimu.pc = "idle"
    /\ ShuimuPost.title \notin downloaded_files
    /\ LET result == parse_detail_page(cell)
           path(k) == ImagePath(ShuimuPost.post_id, result.images[k])
       IN  /\ shuimu' = [pc |-> "gather",
                         content |-> result.content,
                         image_urls |-> result.images,
                         image_paths |->
                             [k \in 1..Len(result.images) |->
                                 download_begins(path(k), image_files)],
                         document |-> "absent"]
           /\ failed_images' =
                  failed_images \ {result.images[k] :
                                      k \in {n \in 1..Len(result.images) :
                                                path(n) \in image_files}}
    /\ UNCHANGED <<image_files, downloaded_files, failed_posts, markdown>>
    /\ UNCHANGED <<shuimu_pages, downloads, storeVars, crawlVars>>

\* process_post when parse_detail_page returns None: the post is recorded
\* as failed.
ShuimuParseFailed ==
    /\ shuimu.pc = "idle"
    /\ ShuimuPost.title \notin downloaded_files
    /\ failed_posts' = failed_posts \cup {ShuimuPost.url}
    /\ UNCHANGED <<shuimu, image_files, downloaded_files, failed_images,
                   markdown>>
    /\ UNCHANGED <<shuimu_pages, downloads, storeVars, crawlVars>>

\* download_image, the request answered with the image: the file is
\* written and the url is no longer a failed image.
ShuimuImageDownloaded(k) ==
    /\ shuimu.pc = "gather"
    /\ k \in DOMAIN shuimu.image_paths
    /\ shuimu.image_paths[k] = Pending
    /\ LET image_path == ImagePath(ShuimuPost.post_id, shuimu.image_urls[k])
       IN  /\ image_files' = image_files \cup {image_path}
           /\ shuimu' = [shuimu EXCEPT !.image_paths[k] = image_path]
    /\ failed_images' = failed_images \ {shuimu.image_urls[k]}
    /\ UNCHANGED <<downloaded_files, failed_posts, markdown>>
    /\ UNCHANGED <<shuimu_pages, downloads, storeVars, crawlVars>>

\* download_image, the last attempt failed: the url is recorded as failed
\* and None is returned.
ShuimuImageFailed(k) ==
    /\ shuimu.pc = "gather"
    /\ k \in DOMAIN shuimu.image_paths
    /\ shuimu.image_paths[k] = Pending
    /\ shuimu' = [shuimu EXCEPT !.image_paths[k] = NoPath]
    /\ failed_images' = failed_images \cup {shuimu.image_urls[k]}
    /\ UNCHANGED <<image_files, downloaded_files, failed_posts, markdown>>
    /\ UNCHANGED <<shuimu_pages, downloads, storeVars, crawlVars>>

\* process_post after the gather, save_to_file up to open(filename, 'w'):
\* the document file is created empty at its final path.
ShuimuOpenDocument ==
    /\ shuimu.pc = "gather"
    /\ \A k \in DOMAIN shuimu.image_paths : shuimu.image_paths[k] # Pending
    /\ shuimu' = [shuimu EXCEPT !.pc = "writing", !.document = "truncated"]
    /\ UNCHANGED <<image_files, downloaded_files, failed_images, failed_posts,
                   markdown>>
    /\ UNCHANGED <<shuimu_pages, downloads, storeVars, crawlVars>>

\* The rest of save_to_file and of process_post: the failed downloads were
\* filtered out, the document is written into the open file, the title is
\* added to the downloaded set, and the post is no longer a failed post.
ShuimuSaveToFile ==
    /\ shuimu.pc = "writing"
    /\ markdown' = save_to_file(shuimu.content,
                                SelectSeq(shuimu.image_paths, IsPath))
    /\ downloaded_files' = downloaded_files \cup {ShuimuPost.title}
    /\ failed_posts' = failed_posts \ {ShuimuPost.url}
    /\ shuimu' = [shuimu EXCEPT !.pc = "saved", !.document = "complete"]
    /\ UNCHANGED <<image_files, failed_images>>
    /\ UNCHANGED <<shuimu_pages, downloads, storeVars, crawlVars>>

\* The process is killed between the open and the write.
ShuimuCrash ==
    /\ shuimu.pc = "writing"
    /\ shuimu' = [shuimu EXCEPT !.pc = "crashed"]
    /\ UNCHANGED <<image_files, downloaded_files, failed_images, failed_posts,
                   markdown>>
    /\ UNCHANGED <<shuimu_pages, downloads, storeVars, crawlVars>>

\* A ShuimuCrawler about to process the post; image files and failure
\* records of an earlier run may be there.
InitShuimu ==
    /\ shuimu = [pc |-> "idle", content |-> <<>>, image_urls |-> <<>>,
                 image_paths |-> <<>>, document |-> "absent"]
    /\ image_files \in SUBSET {ImagePath(ShuimuPost.post_id, "u0")}
    /\ downloaded_files = {}
    /\ failed_images \in SUBSET {"u0"}
    /\ failed_posts = {}
    /\ markdown = <<>>
    /\ shuimu_pages = <<>>
    /\ downloads = <<>>
    /\ config = IdleConfig
    /\ seed = [b \in Boards |-> NoFile]
    /\ files = seed
    /\ boards = [b \in Boards |-> NotLoaded]
    /\ semaphore = config.max_concurrent_tasks
    /\ board_posts = [b \in Boards |-> 0]
    /\ crawl = [b \in Boards |-> [pc |-> "off", page |-> 1, attempt |-> 0]]
    /\ tasks = [b \in Boards |-> <<>>]
    /\ dispatched = [b \in Boards |-> {}]
    /\ requested = {}
    /\ documents = [b \in Boards |-> {}]

NextShuimu ==
    \/ \E cell \in Cells : ShuimuProcessPost(cell)
    \/ ShuimuParseFailed
    \/ \E k \in 1..MaxCell : ShuimuImageDownloaded(k)
    \/ \E k \in 1..MaxCell : ShuimuImageFailed(k)
    \/ ShuimuOpenDocument
    \/ ShuimuSaveToFile
    \/ ShuimuCrash

SpecShuimu == InitShuimu /\ [][NextShuimu]_vars

\* The image paths of the references of a document, in order.
IsImage(token) == token.kind = "image"

IsPlaceholder(token) == token.kind = "placeholder"

(***************************************************************************)
(* ShuimuCrawler.crawl and crawl_page (src/crawler.py): one crawl_page     *)
(* task per page of the range, all gathered together.  A page's task       *)
(* fetches the listing and gathers one process_post per listed post; here  *)
(* a process_post is a task that finishes.                                 *)
(***************************************************************************)
\* end_page of the crawl; start_page is 1.
MaxEndPage == 3
\* The posts one listing page holds at most.
MaxPagePosts == 2

\* A crawl_page task that has been created and has not yet run.
PageCreated == [pc |-> "created", posts |-> 0, finished |-> 0]

\* crawl, lines 505-510: the tasks of the pages start in the order of their
\* creation, each running up to its listing request.
PagesStartedBefore(p) ==
    \A q \in 1..(p - 1) : shuimu_pages[q].pc # "created"

\* crawl_page, line 464, up to the request of parse_list_page.
ShuimuCrawlPage(p) ==
    /\ p \in DOMAIN shuimu_pages
    /\ shuimu_pages[p].pc = "created"
    /\ PagesStartedBefore(p)
    /\ shuimu_pages' = [shuimu_pages EXCEPT ![p].pc = "listing"]
    /\ UNCHANGED <<shuimu, image_files, downloaded_files, failed_images,
                   failed_posts, markdown>>
    /\ UNCHANGED <<downloads, storeVars, crawlVars>>

\* crawl_page, lines 464-470: the listing is answered with n new posts (none
\* when the fetch failed); one process_post per post is gathered.
ShuimuPageListed(p, n) ==
    /\ p \in DOMAIN shuimu_pages
    /\ shuimu_pages[p].pc = "listing"
    /\ PagesStartedBefore(Len(shuimu_pages) + 1)
    /\ shuimu_pages' = [shuimu_pages EXCEPT
                           ![p] = [pc |-> IF n = 0 THEN "done" ELSE "posts",
                                   posts |-> n, finished |-> 0]]
    /\ UNCHANGED <<shuimu, image_files, downloaded_files, failed_images,
                   failed_posts, markdown>>
    /\ UNCHANGED <<downloads, storeVars, crawlVars>>

\* One process_post of the page returns; crawl_page, line 468, returns when
\* the last one has.
ShuimuPostProcessed(p) ==
    /\ p \in DOMAIN shuimu_pages
    /\ shuimu_pages[p].pc = "posts"
    /\ shuimu_pages' =
           [shuimu_pages EXCEPT
               ![p].finished = @ + 1,
               ![p].pc = IF shuimu_pages[p].finished + 1 = shuimu_pages[p].posts
                         THEN "done" ELSE "posts"]
    /\ UNCHANGED <<shuimu, image_files, downloaded_files, failed_images,
                   failed_posts, markdown>>
    /\ UNCHANGED <<downloads, storeVars, crawlVars>>

\* crawl(1, MaxEndPage) after the session is set up and nothing is left to
\* retry: the tasks of the pages are created.
InitShuimuCrawl ==
    /\ shuimu = [pc |-> "off", content |-> <<>>, image_urls |-> <<>>,
                 image_paths |-> <<>>, document |-> "absent"]
    /\ image_files = {}
    /\ downloaded_files = {}
    /\ failed_images = {}
    /\ failed_posts = {}
    /\ markdown = <<>>
    /\ shuimu_pages = [p \in 1..MaxEndPage |-> PageCreated]
    /\ downloads = <<>>
    /\ config = IdleConfig
    /\ seed = [b \in Boards |-> NoFile]
    /\ files = seed
    /\ boards = [b \in Boards |-> NotLoaded]
    /\ semaphore = config.max_concurrent_tasks
    /\ board_posts = [b \in Boards |-> 0]
    /\ crawl = [b \in Boards |-> [pc |-> "off", page |-> 1, attempt |-> 0]]
    /\ tasks = [b \in Boards |-> <<>>]
    /\ dispatched = [b \in Boards |-> {}]
    /\ requested = {}
    /\ documents = [b \in Boards |-> {}]

NextShuimuCrawl ==
    \/ \E p \in 1..MaxEndPage : ShuimuCrawlPage(p)
    \/ \E p \in 1..MaxEndPage, n \in 0..MaxPagePosts : ShuimuPageListed(p, n)
    \/ \E p \in 1..MaxEndPage : ShuimuPostProcessed(p)

SpecShuimuCrawl == InitShuimuCrawl /\ [][NextShuimuCrawl]_vars

(***************************************************************************)
(* ShuimuCrawler.download_image, attempt by attempt: the calls that        *)
(* process_post gathers for the images of one post.  Each call keeps the   *)
(* log of the outcomes of the requests it has sent.                        *)
(***************************************************************************)
download_max_retries == 2
MaxDownloads == 2

\* What a request for an image can come to: a full body, a body shorter or
\* longer than Content-Length, a status other than 200, a ClientError or a
\* timeout, any other exception.
Raised == {"truncated", "error"}

Download(image_url) ==
    [image_url |-> image_url, pc |-> "created", attempt |-> 0, log |-> <<>>,
     result |-> Pending]

DownloadPath(c) == ImagePath(ShuimuPost.post_id, downloads[c].image_url)

download_retries_never(attempt) == FALSE

\* attempt < max_retries - 1: another pass of the loop follows.
download_retries(attempt) == attempt < download_max_retries - 1

\* The head of a pass of the loop: a file that is already there is the
\* result, otherwise the request is sent.
download_attempt(c, attempt, log) ==
    IF DownloadPath(c) \in image_files
    THEN /\ downloads' = [downloads EXCEPT ![c] =
                [@ EXCEPT !.pc = "returned", !.attempt = attempt,
                          !.log = log, !.result = DownloadPath(c)]]
         /\ failed_images' = failed_images \ {downloads[c].image_url}
    ELSE /\ downloads' = [downloads EXCEPT ![c] =
                [@ EXCEPT !.pc = "request", !.attempt = attempt, !.log = log]]
         /\ failed_images' = failed_images

\* _add_failed_image and return None.
download_gives_up(c, log) ==
    /\ downloads' = [downloads EXCEPT ![c] =
           [@ EXCEPT !.pc = "returned", !.log = log, !.result = NoPath]]
    /\ failed_images' = failed_images \cup {downloads[c].image_url}

DownloadsStartedBefore(c) ==
    \A d \in 1..(c - 1) : downloads[d].pc # "created"

\* The gathered calls start in the order of the image urls.
DownloadStart(c) ==
    /\ c \in DOMAIN downloads
    /\ downloads[c].pc = "created"
    /\ DownloadsStartedBefore(c)
    /\ download_attempt(c, 0, <<>>)
    /\ UNCHANGED <<shuimu, image_files, downloaded_files, failed_posts,
                   markdown, shuimu_pages, storeVars, crawlVars>>

\* Status 200 and as many bytes as Content-Length announces (or no
\* Content-Length): the file is written and its path returned.
DownloadWritten(c) ==
    /\ c \in DOMAIN downloads
    /\ downloads[c].pc = "request"
    /\ image_files' = image_files \cup {DownloadPath(c)}
    /\ failed_images' = failed_images \ {downloads[c].image_url}
    /\ downloads' = [downloads EXCEPT ![c] =
           [@ EXCEPT !.pc = "returned", !.log = Append(@, "ok"),
                     !.result = DownloadPath(c)]]
    /\ UNCHANGED <<shuimu, downloaded_files, failed_posts, markdown,
                   shuimu_pages, storeVars, crawlVars>>

\* A size mismatch raises ClientError before the file is opened; it is
\* handled like a ClientError or a timeout of the request: sleep and go
\* round again, or give up on the last pass.
DownloadRaised(c, kind) ==
    /\ c \in DOMAIN downloads
    /\ downloads[c].pc = "request"
    /\ IF download_retries(downloads[c].attempt)
       THEN /\ downloads' = [downloads EXCEPT ![c] =
                   [@ EXCEPT !.pc = "sleep", !.log = Append(@, kind)]]
            /\ failed_images' = failed_images
       ELSE download_gives_up(c, Append(downloads[c].log, kind))
    /\ UNCHANGED <<shuimu, image_files, downloaded_files, failed_posts,
                   markdown, shuimu_pages, storeVars, crawlVars>>

\* After the sleep the next pass begins.
DownloadRetry(c) ==
    /\ c \in DOMAIN downloads
    /\ downloads[c].pc = "sleep"
    /\ download_attempt(c, downloads[c].attempt + 1, downloads[c].log)
    /\ UNCHANGED <<shuimu, image_files, downloaded_files, failed_posts,
                   markdown, shuimu_pages, storeVars, crawlVars>>

\* A status other than 200: the next pass begins at once, or the call gives
\* up on the last pass.
DownloadBadStatus(c) ==
    /\ c \in DOMAIN downloads
    /\ downloads[c].pc = "request"
    /\ IF download_retries(downloads[c].attempt)
       THEN download_attempt(c, downloads[c].attempt + 1,
                             Append(downloads[c].log, "status"))
       ELSE download_gives_up(c, Append(downloads[c].log, "status"))
    /\ UNCHANGED <<shuimu, image_files, downloaded_files, failed_posts,
                   markdown, shuimu_pages, storeVars, crawlVars>>

\* Any other exception ends the call on whichever pass it happens.
DownloadUnexpected(c) ==
    /\ c \in DOMAIN downloads
    /\ downloads[c].pc = "request"
    /\ download_gives_up(c, Append(downloads[c].log, "unexpected"))
    /\ UNCHANGED <<shuimu, image_files, downloaded_files, failed_posts,
                   markdown, shuimu_pages, storeVars, crawlVars>>

\* The calls of one gather, before any of them has run; image files and
\* failure records of an earlier run may be there.
InitShuimuDownload ==
    /\ shuimu = [pc |-> "off", content |-> <<>>, image_urls |-> <<>>,
                 image_paths |-> <<>>, document |-> "absent"]
    /\ image_files \in SUBSET {ImagePath(ShuimuPost.post_id, "u0")}
    /\ downloaded_files = {}
    /\ failed_images \in SUBSET {"u0"}
    /\ failed_posts = {}
    /\ markdown = <<>>
    /\ shuimu_pages = <<>>
    /\ \E image_urls \in [1..MaxDownloads -> {"u0", "u1"}] :
           downloads = [c \in 1..MaxDownloads |-> Download(image_urls[c])]
    /\ config = IdleConfig
    /\ seed = [b \in Boards |-> NoFile]
    /\ files = seed
    /\ boards = [b \in Boards |-> NotLoaded]
    /\ semaphore = config.max_concurrent_tasks
    /\ board_posts = [b \in Boards |-> 0]
    /\ crawl = [b \in Boards |-> [pc |-> "off", page |-> 1, attempt |-> 0]]
    /\ tasks = [b \in Boards |-> <<>>]
    /\ dispatched = [b \in Boards |-> {}]
    /\ requested = {}
    /\ documents = [b \in Boards |-> {}]

NextShuimuDownload ==
    \/ \E c \in 1..MaxDownloads : DownloadStart(c)
    \/ \E c \in 1..MaxDownloads : DownloadWritten(c)
    \/ \E c \in 1..MaxDownloads, kind \in Raised : DownloadRaised(c, kind)
    \/ \E c \in 1..MaxDownloads : DownloadRetry(c)
    \/ \E c \in 1..MaxDownloads : DownloadBadStatus(c)
    \/ \E c \in 1..MaxDownloads : DownloadUnexpected(c)

SpecShuimuDownload == InitShuimuDownload /\ [][NextShuimuDownload]_vars

(***************************************************************************)
(* state.py as the file stands: save_board_state followed by               *)
(* load_board_state in a new StateManager.  When load_board_state runs,    *)
(* the module's name PostState is the dataclass of lines 38-60, which has  *)
(* replaced the enumeration of lines 11-17 (PostInfo's default state was   *)
(* bound before, and is a member of the enumeration).  The rest of the     *)
(* model reads PostState(...) in load_board_state as the enumeration the   *)
(* call is written for; this part reads it as Python resolves it.          *)
(***************************************************************************)
\* The records a board may hold before it is saved.
SavedPosts ==
    [state : PostState, retry_count : 0..1, last_attempt : {None, Now},
     error_message : {None}, downloaded_images : {<<>>, <<"i1">>},
     failed_images : {<<>>, <<"i1">>}]

SavedBoards ==
    UNION {[loaded : {TRUE}, last_page : {1, 2}, posts : [ids -> SavedPosts]] :
              ids \in {{}} \cup {{p} : p \in PostIds}}

\* load_board_state did not return: an exception left it.
LoadRaised ==
    [loaded |-> FALSE, last_page |-> 1, posts |-> NoPosts, raised |-> TRUE]

\* PostState(post_data['state']) with PostState the dataclass: one
\* positional argument where url and title are required, a TypeError.
PostState_dataclass_raises(value) == TRUE

load_board_state_as_written(fs, board_name) ==
    IF ~fs[board_name].exists
    THEN BoardState
    ELSE IF \E p \in DOMAIN fs[board_name].posts :
                PostState_dataclass_raises(fs[board_name].posts[p].state)
    THEN LoadRaised
    ELSE [loaded |-> TRUE, last_page |-> fs[board_name].last_page,
          posts |-> NoPosts]

\* A client saves a board state it holds.
AsWrittenSave(b, board_state) ==
    /\ files' = save_board_state(files, b, board_state)
    /\ boards' = [boards EXCEPT ![b] = board_state]
    /\ UNCHANGED <<crawlVars, shuimuVars>>

\* A new StateManager over the same directory loads the board.
AsWrittenLoad(b) ==
    /\ boards' = [boards EXCEPT ![b] = load_board_state_as_written(files, b)]
    /\ UNCHANGED <<files, crawlVars, shuimuVars>>

NextStoreAsWritten ==
    \/ \E b \in config.boards, board_state \in SavedBoards :
           AsWrittenSave(b, board_state)
    \/ \E b \in config.boards : AsWrittenLoad(b)

SpecStoreAsWritten == InitStore /\ [][NextStoreAsWritten]_vars

(***************************************************************************)
(* config.py: the construction of a configuration with one board.  A url   *)
(* is what it starts with; a number is negative, zero or positive; an      *)
(* optional limit is <<>> (None) or <<n>>.  The BoardConfig is constructed *)
(* first, being an argument of CrawlerConfig.                              *)
(***************************************************************************)
Schemes == {"http://", "https://", "ftp://"}
Numbers == -1..1
Limits == {<<>>} \cup {<<n>> : n \in Numbers}

ConfigValues ==
    [base_url : Schemes, max_concurrent_tasks : Numbers,
     max_retries : Numbers, retry_delay : Numbers, timeout : Numbers,
     url : Schemes, max_pages : Limits, max_posts : Limits,
     constructed : {"no"}]

\* url.startswith(('http://', 'https://'))
IsHttp(url) == url \in {"http://", "https://"}

BoardConfig_post_init(values) ==
    IF ~IsHttp(values.url) THEN "ValueError"
    ELSE IF values.max_pages # <<>> /\ values.max_pages[1] < 1
    THEN "ValueError"
    ELSE IF values.max_posts # <<>> /\ values.max_posts[1] < 1
    THEN "ValueError"
    ELSE "ok"

CrawlerConfig_post_init(values) ==
    IF ~IsHttp(values.base_url) THEN "ValueError"
    ELSE IF values.max_concurrent_tasks < 1 THEN "ValueError"
    ELSE IF values.max_retries < 0 THEN "ValueError"
    ELSE IF values.retry_delay < 0 THEN "ValueError"
    ELSE IF values.timeout <= 0 THEN "ValueError"
    ELSE "ok"

ConfigConstruct ==
    /\ config.constructed = "no"
    /\ config' = [config EXCEPT !.constructed =
                     IF BoardConfig_post_init(config) = "ok"
                     THEN CrawlerConfig_post_init(config)
                     ELSE "ValueError"]
    /\ UNCHANGED <<storeVars, semaphore, board_posts, crawl, tasks, seed,
                   dispatched, requested, documents>>
    /\ UNCHANGED shuimuVars

InitConfig ==
    /\ config \in ConfigValues
    /\ seed = [b \in Boards |-> NoFile]
    /\ files = seed
    /\ boards = [b \in Boards |-> NotLoaded]
    /\ semaphore = 0
    /\ board_posts = [b \in Boards |-> 0]
    /\ crawl = [b \in Boards |-> [pc |-> "off", page |-> 1, attempt |-> 0]]
    /\ tasks = [b \in Boards |-> <<>>]
    /\ dispatched = [b \in Boards |-> {}]
    /\ requested = {}
    /\ documents = [b \in Boards |-> {}]
    /\ ShuimuOff

NextConfig == ConfigConstruct

SpecConfig == InitConfig /\ [][NextConfig]_vars

(***************************************************************************)
(* The extraction of a listing page: Crawler._parse_list_page and          *)
(* ShuimuCrawler.parse_list_page applied to the rows of table.board-list.  *)
(* A row has data cells or not (a header row has none), is pinned (class   *)
(* top) or not, and has in its title cell a link to a post or none.  A     *)
(* summary is named by the post its link leads to; a post's title is named *)
(* after the post.                                                         *)
(***************************************************************************)
MaxRowCount == 3

NoLink == "nolink"

ListingRows ==
    {[cells |-> FALSE, top |-> FALSE, link |-> NoLink]}
    \cup [cells : {TRUE}, top : BOOLEAN, link : PostIds \cup {NoLink}]

ListingPages == UNION {[1..n -> ListingRows] : n \in 0..MaxRowCount}

Links(rows) == [k \in 1..Len(rows) |-> rows[k].link]

\* Crawler._parse_list_page, lines 257-264: the rows it keeps.
CrawlerKeeps(row) == row.cells /\ ~row.top /\ row.link # NoLink

Crawler_parse_list_page(rows) == Links(SelectSeq(rows, CrawlerKeeps))

\* ShuimuCrawler.parse_list_page, lines 288-295: the rows with a link in
\* their second cell, whatever the class of the row.
ShuimuKeeps(row) == row.cells /\ row.link # NoLink

RECURSIVE Shuimu_parse_list_page(_, _)
Shuimu_parse_list_page(rows, downloaded) ==
    IF rows = <<>> THEN <<>>
    ELSE IF ShuimuKeeps(Head(rows)) /\ Head(rows).link \notin downloaded
    THEN <<Head(rows).link>> \o Shuimu_parse_list_page(Tail(rows), downloaded)
    ELSE Shuimu_parse_list_page(Tail(rows), downloaded)

\* The page has arrived and is parsed.
CrawlerParseListPage ==
    /\ shuimu_pages[1].pc = "fetched"
    /\ shuimu_pages[1].parser = "Crawler"
    /\ shuimu_pages' = [shuimu_pages EXCEPT
           ![1].pc = "parsed",
           ![1].posts = Crawler_parse_list_page(shuimu_pages[1].rows)]
    /\ UNCHANGED <<shuimu, image_files, downloaded_files, failed_images,
                   failed_posts, markdown, downloads, storeVars, crawlVars>>

ShuimuParseListPage ==
    /\ shuimu_pages[1].pc = "fetched"
    /\ shuimu_pages[1].parser = "ShuimuCrawler"
    /\ shuimu_pages' = [shuimu_pages EXCEPT
           ![1].pc = "parsed",
           ![1].posts = Shuimu_parse_list_page(shuimu_pages[1].rows,
                                               downloaded_files)]
    /\ UNCHANGED <<shuimu, image_files, downloaded_files, failed_images,
                   failed_posts, markdown, downloads, storeVars, crawlVars>>

\* A fetched listing page in the hands of one of the two crawlers, on a
\* first run.
InitListing ==
    /\ shuimu = [pc |-> "off", content |-> <<>>, image_urls |-> <<>>,
                 image_paths |-> <<>>, document |-> "absent"]
    /\ image_files = {}
    /\ downloaded_files = {}
    /\ failed_images = {}
    /\ failed_posts = {}
    /\ markdown = <<>>
    /\ \E rows \in ListingPages, parser \in {"Crawler", "ShuimuCrawler"} :
           shuimu_pages = <<[pc |-> "fetched", parser |-> parser,
                             rows |-> rows, posts |-> <<>>]>>
    /\ downloads = <<>>
    /\ config = IdleConfig
    /\ seed = [b \in Boards |-> NoFile]
    /\ files = seed
    /\ boards = [b \in Boards |-> NotLoaded]
    /\ semaphore = config.max_concurrent_tasks
    /\ board_posts = [b \in Boards |-> 0]
    /\ crawl = [b \in Boards |-> [pc |-> "off", page |-> 1, attempt |-> 0]]
    /\ tasks = [b \in Boards |-> <<>>]
    /\ dispatched = [b \in Boards |-> {}]
    /\ requested = {}
    /\ documents = [b \in Boards |-> {}]

NextListing ==
    \/ CrawlerParseListPage
    \/ ShuimuParseListPage

SpecListing == InitListing /\ [][NextListing]_vars

(***************************************************************************)
(* The names of the files a post is saved under.  Crawler._save_post,      *)
(* lines 364-379, names the metadata file and the document after the       *)
(* sanitised title of the post and nothing else; the identifier of the     *)
(* post is not part of the path.  A title is a sequence of characters.     *)
(* The tasks of this specification carry the title of their post, and a    *)
(* board's documents are the posts whose document is on disk: the file at  *)
(* the post's path holds the text written for that post.                   *)
(***************************************************************************)
\* _get_safe_filename, line 445: the characters replaced by an underscore.
IllegalCharacters == {"<", ">", ":", "\"", "/", "\\", "|", "?", "*"}

\* _get_safe_filename, line 447: the length a file name is cut to.
safe_filename_length == 100

\* _get_safe_filename, lines 435-447.
get_safe_filename(filename) ==
    LET replaced == [i \in 1..Len(filename) |->
                        IF filename[i] \in IllegalCharacters
                        THEN "_" ELSE filename[i]]
    IN  SubSeq(replaced, 1,
               IF Len(replaced) < safe_filename_length
               THEN Len(replaced) ELSE safe_filename_length)

\* Lines 364, 368 and 425: the path of a post's document.
md_path(board_name, title) == <<board_name, get_safe_filename(title), ".md">>

\* A title of n letters.
LongTitle(n) == [i \in 1..n |-> "a"]

\* The titles the posts of a page are drawn from.
Titles ==
    {<<"a", "/">>, <<"a", ":">>, <<"a", "b">>,
     LongTitle(safe_filename_length), LongTitle(safe_filename_length + 1)}

\* The posts whose document lies at the path the post of task k is saved to.
SamePath(b, k) ==
    {tasks[b][j].post_id : j \in {i \in 1..Len(tasks[b]) :
        /\ i # k
        /\ md_path(b, tasks[b][i].title) = md_path(b, tasks[b][k].title)}}

\* Lines 368, 424-429 and 481: the document is opened for writing at the
\* path made of the title, which replaces whatever file was there, and the
\* post is completed.
SavePostDocument(b, k) ==
    /\ k \in 1..Len(tasks[b])
    /\ AllStarted(b)
    /\ Task(b, k).pc = "write_md"
    /\ documents' = [documents EXCEPT
                        ![b] = (@ \ SamePath(b, k)) \cup {Task(b, k).post_id}]
    /\ Finish(b, k, "COMPLETED")
    /\ UNCHANGED shuimuVars
    /\ UNCHANGED <<config, semaphore, board_posts, crawl, seed, dispatched,
                   requested>>

\* crawl_board, lines 209-236: a page listing two new posts was handled and
\* the tasks of its posts were created.
TitledConfig ==
    [boards |-> {"b1"}, max_concurrent_tasks |-> 1, max_retries |-> 2,
     max_pages |-> 0, max_posts |-> 0, save_images |-> TRUE]

InitTitles ==
    /\ ShuimuOff
    /\ config = TitledConfig
    /\ seed = [b \in Boards |-> NoFile]
    /\ semaphore = config.max_concurrent_tasks
    /\ crawl = [b \in Boards |->
                   [pc |-> IF b \in config.boards THEN "gather" ELSE "off",
                    page |-> 1, attempt |-> 0]]
    /\ requested = {}
    /\ documents = [b \in Boards |-> {}]
    /\ LET d == dispatch_posts([boards |-> [b \in Boards |-> NotLoaded],
                                files |-> seed],
                               "b1", config.max_posts, <<"p1", "p2">>, 1, 0,
                               <<>>)
       IN  /\ boards = d.sm.boards
           /\ files = d.sm.files
           /\ board_posts = [b \in Boards |->
                                IF b = "b1" THEN d.board_posts ELSE 0]
           /\ dispatched = [b \in Boards |->
                               IF b = "b1" THEN {"p1", "p2"} ELSE {}]
           /\ \E first \in Titles, second \in Titles :
                  tasks = [b \in Boards |->
                      IF b = "b1"
                      THEN <<[post_id |-> d.tasks[1].post_id, pc |-> "created",
                              attempt |-> 0, images |-> 0, linked |-> 0,
                              title |-> first],
                             [post_id |-> d.tasks[2].post_id, pc |-> "created",
                              attempt |-> 0, images |-> 0, linked |-> 0,
                              title |-> second]>>
                      ELSE <<>>]

NextTitles ==
    \E b \in Boards, k \in 1..MaxPagePosts :
        \/ TaskStart(b, k)
        \/ TaskAcquire(b, k)
        \/ TaskFetchFailed(b, k)
        \/ TaskExtractionFailed(b, k)
        \/ TaskExtracted(b, k, 0)
        \/ SavePostDocument(b, k)

SpecTitles == InitTitles /\ [][NextTitles]_vars

(***************************************************************************)
(* The state manager over state files of an earlier run: a file records a  *)
(* last page other than the default and a post that is not the one the     *)
(* operations of the run are about.                                        *)
(***************************************************************************)
SeededFile ==
    [exists |-> TRUE, parsable |-> TRUE, last_page |-> 2,
     posts |-> [p \in {"p2"} |->
                   [state |-> "failed", retry_count |-> 1,
                    last_attempt |-> Now, error_message |-> "failed",
                    downloaded_images |-> <<>>, failed_images |-> <<"i1">>]]]

InitStoreSeeded ==
    /\ config = IdleConfig
    /\ seed \in [Boards -> {NoFile, SeededFile}]
    /\ files = seed
    /\ boards = [b \in Boards |-> NotLoaded]
    /\ semaphore = config.max_concurrent_tasks
    /\ board_posts = [b \in Boards |-> 0]
    /\ crawl = [b \in Boards |-> [pc |-> "off", page |-> 1, attempt |-> 0]]
    /\ tasks = [b \in Boards |-> <<>>]
    /\ dispatched = [b \in Boards |-> {}]
    /\ requested = {}
    /\ documents = [b \in Boards |-> {}]
    /\ ShuimuOff

SpecStoreSeeded == InitStoreSeeded /\ [][NextStore]_vars

(***************************************************************************)
(* ShuimuCrawler.process_post, task by task.  crawl_page gathers one       *)
(* process_post per listed post, and each runs up to its detail request    *)
(* before any response is handled; the same post, or two posts under one   *)
(* sanitised title, can be listed twice (parse_list_page, lines 283-309,   *)
(* compares the titles with the downloaded files and not with each other). *)
(* Here the one page of shuimu_pages carries its tasks, downloaded_files   *)
(* holds sanitised titles and failed_posts holds the posts recorded as     *)
(* failed, one for each url.  The images of a post are left out.           *)
(***************************************************************************)
\* ShuimuCrawler._get_safe_filename, lines 512-514: no cut of the length.
shuimu_safe_filename(title) ==
    [i \in 1..Len(title) |->
        IF title[i] \in IllegalCharacters THEN "_" ELSE title[i]]

ListedPosts ==
    [post_id : PostIds, title : {<<"a", "/">>, <<"a", ":">>}]

PostUrl(post) == post.post_id

PostTask(post) == [pc |-> "created", post |-> post]

PostTasks == shuimu_pages[1].tasks

SetPostTask(k, pc) ==
    shuimu_pages' = [shuimu_pages EXCEPT ![1].tasks[k].pc = pc]

\* _add_failed_post, lines 104-111: the record of the url is set.
add_failed_post(failed, post) ==
    {f \in failed : PostUrl(f) # PostUrl(post)} \cup {post}

\* _remove_failed_post, lines 123-127.
remove_failed_post(failed, url) == {f \in failed : PostUrl(f) # url}

\* Lines 434-436: a post whose sanitised title is among the downloaded files
\* is passed over; for any other the detail page is requested.
ProcessPostStart(k) ==
    /\ k \in DOMAIN PostTasks
    /\ PostTasks[k].pc = "created"
    /\ \A j \in 1..(k - 1) : PostTasks[j].pc # "created"
    /\ SetPostTask(k, IF shuimu_safe_filename(PostTasks[k].post.title)
                             \in downloaded_files
                      THEN "returned" ELSE "detail")
    /\ UNCHANGED <<shuimu, image_files, downloaded_files, failed_images,
                   failed_posts, markdown, downloads, storeVars, crawlVars>>

\* Lines 436 and 455-456: parse_detail_page returned None.
ProcessPostParseFailed(k) ==
    /\ k \in DOMAIN PostTasks
    /\ PostTasks[k].pc = "detail"
    /\ failed_posts' = add_failed_post(failed_posts, PostTasks[k].post)
    /\ SetPostTask(k, "returned")
    /\ UNCHANGED <<shuimu, image_files, downloaded_files, failed_images,
                   markdown, downloads, storeVars, crawlVars>>

\* Lines 437-454 and 412-417: the document is written, its sanitised title
\* joins the downloaded files and the failure record of the url is removed.
ProcessPostSaved(k) ==
    /\ k \in DOMAIN PostTasks
    /\ PostTasks[k].pc = "detail"
    /\ downloaded_files' = downloaded_files
           \cup {shuimu_safe_filename(PostTasks[k].post.title)}
    /\ failed_posts' = remove_failed_post(failed_posts,
                                          PostUrl(PostTasks[k].post))
    /\ SetPostTask(k, "returned")
    /\ UNCHANGED <<shuimu, image_files, failed_images, markdown, downloads,
                   storeVars, crawlVars>>

\* Lines 428-429 and 453-454: save_to_file swallowed the exception of a
\* failed write, and the failure record of the url is removed all the same.
ProcessPostSaveFailed(k) ==
    /\ k \in DOMAIN PostTasks
    /\ PostTasks[k].pc = "detail"
    /\ failed_posts' = remove_failed_post(failed_posts,
                                          PostUrl(PostTasks[k].post))
    /\ SetPostTask(k, "returned")
    /\ UNCHANGED <<shuimu, image_files, downloaded_files, failed_images,
                   markdown, downloads, storeVars, crawlVars>>

AllPostTasksReturned == \A k \in DOMAIN PostTasks : PostTasks[k].pc = "returned"

\* One task for each failed post.  Each runs up to its detail request before
\* any response is handled, so that the order of the records plays no part:
\* they are taken in the order of their urls.
FailedPostTasks(failed) ==
    LET urls == SelectSeq(<<"p1", "p2">>,
                          LAMBDA u : \E f \in failed : PostUrl(f) = u)
    IN  [k \in 1..Len(urls) |->
            PostTask(CHOOSE f \in failed : PostUrl(f) = urls[k])]

\* retry_failed_items, lines 474-481, at the start of the next crawl: one
\* process_post is gathered for each post recorded as failed.
RetryFailedItems ==
    /\ shuimu_pages[1].pc = "posts"
    /\ AllPostTasksReturned
    /\ failed_posts # {}
    /\ shuimu_pages' = <<[pc |-> "retry",
                          tasks |-> FailedPostTasks(failed_posts)]>>
    /\ UNCHANGED <<shuimu, image_files, downloaded_files, failed_images,
                   failed_posts, markdown, downloads, storeVars, crawlVars>>

InitShuimuPosts ==
    /\ shuimu = [pc |-> "off", content |-> <<>>, image_urls |-> <<>>,
                 image_paths |-> <<>>, document |-> "absent"]
    /\ image_files = {}
    /\ downloaded_files = {}
    /\ failed_images = {}
    /\ failed_posts = {}
    /\ markdown = <<>>
    /\ \E posts \in [1..MaxPagePosts -> ListedPosts] :
           shuimu_pages = <<[pc |-> "posts",
                             tasks |-> [k \in 1..MaxPagePosts |->
                                           PostTask(posts[k])]]>>
    /\ downloads = <<>>
    /\ config = IdleConfig
    /\ seed = [b \in Boards |-> NoFile]
    /\ files = seed
    /\ boards = [b \in Boards |-> NotLoaded]
    /\ semaphore = config.max_concurrent_tasks
    /\ board_posts = [b \in Boards |-> 0]
    /\ crawl = [b \in Boards |-> [pc |-> "off", page |-> 1, attempt |-> 0]]
    /\ tasks = [b \in Boards |-> <<>>]
    /\ dispatched = [b \in Boards |-> {}]
    /\ requested = {}
    /\ documents = [b \in Boards |-> {}]

NextShuimuPosts ==
    \/ \E k \in 1..MaxPagePosts : ProcessPostStart(k)
    \/ \E k \in 1..MaxPagePosts : ProcessPostParseFailed(k)
    \/ \E k \in 1..MaxPagePosts : ProcessPostSaved(k)
    \/ \E k \in 1..MaxPagePosts : ProcessPostSaveFailed(k)
    \/ RetryFailedItems

SpecShuimuPosts == InitShuimuPosts /\ [][NextShuimuPosts]_vars

(***************************************************************************)
(* The claims.                                                             *)
(***************************************************************************)

\* C1: at every moment of a run the requests in flight (listing, detail and
\* image requests together) are at most max_concurrent_tasks.
C1_RequestsWithinBound == InFlight <= config.max_concurrent_tasks

\* C2: once the record of a post is Completed, no later step changes its
\* state.
C2_CompletedIsFinal ==
    [][\A b \in Boards, id \in PostIds :
          (HasRecord(Store, b, id) /\ RecordOf(Store, b, id).state = "COMPLETED")
              => /\ HasRecord(StoreAfter, b, id)
                 /\ RecordOf(StoreAfter, b, id).state = "COMPLETED"]_vars

\* C3: no operation of the store (transition, image record, save, restart
\* and reload) makes the retry_count of a post smaller.
C3_RetryCountNeverDecreases ==
    [][\A b \in Boards, id \in PostIds :
          HasRecord(Store, b, id)
              => /\ HasRecord(StoreAfter, b, id)
                 /\ RecordOf(StoreAfter, b, id).retry_count
                        >= RecordOf(Store, b, id).retry_count]_vars

\* A process restarted over a file in which a post that failed as often as
\* the model counts has later been completed.
C3_Witness ==
    \E b \in Boards, id \in PostIds :
        /\ ~boards[b].loaded
        /\ HasRecord(Store, b, id)
        /\ RecordOf(Store, b, id).retry_count = MaxRetryCount
        /\ RecordOf(Store, b, id).state = "COMPLETED"

\* C4: when crawl_board has returned, every post it created a task for is
\* Completed or Failed.
C4_DispatchedPostsSettled ==
    \A b \in Boards :
        crawl[b].pc = "done"
            => \A id \in dispatched[b] :
                   /\ HasRecord(Store, b, id)
                   /\ RecordOf(Store, b, id).state \in {"COMPLETED", "FAILED"}

\* A finished crawl that left one post completed and another failed.
C4_Witness ==
    \E b \in Boards, id1 \in PostIds, id2 \in PostIds :
        /\ crawl[b].pc = "done"
        /\ {id1, id2} \subseteq dispatched[b]
        /\ RecordOf(Store, b, id1).state = "COMPLETED"
        /\ RecordOf(Store, b, id2).state = "FAILED"

\* The state file the run started from holds the post as completed.
SeededCompleted(b, id) ==
    /\ seed[b].exists
    /\ id \in DOMAIN seed[b].posts
    /\ seed[b].posts[id].state = PostStateValue("COMPLETED")

C6_EligibilityPredicate ==
    \A b \in config.boards, id \in PostIds, max_retries \in 0..(MaxRetryCount + 1) :
        should_process_post(Store, b, id, max_retries)
            <=> \/ ~HasRecord(Store, b, id)
                \/ /\ RecordOf(Store, b, id).state # "COMPLETED"
                   /\ \/ RecordOf(Store, b, id).state \notin {"FAILED", "RETRY"}
                      \/ RecordOf(Store, b, id).retry_count < max_retries

\* A post waiting for a retry after one failure: not eligible with one
\* retry allowed, eligible with two.
C6_Witness ==
    \E b \in config.boards, id \in PostIds :
        /\ HasRecord(Store, b, id)
        /\ RecordOf(Store, b, id).state = "RETRY"
        /\ RecordOf(Store, b, id).retry_count = 1
        /\ ~should_process_post(Store, b, id, 1)
        /\ should_process_post(Store, b, id, 2)

\* C7: crawl_board creates a task for a listed post only if
\* should_process_post holds for it when the listing is handled.
C7_DispatchOnlyEligible ==
    [][\A b \in Boards, k \in Rows :
          (crawl[b].pc = "fetch_inflight" /\ crawl'[b].pc = "gather"
           /\ k <= Len(tasks'[b]))
              => should_process_post(Store, b, tasks'[b][k].post_id,
                                     config.max_retries)]_vars

\* C8: a step that moves a post to Failed adds exactly one to its
\* retry_count and records an error, and no other step changes retry_count.
C8_RetryCountedOnFailureOnly ==
    [][\A b \in Boards, id \in PostIds :
          (HasRecord(Store, b, id) /\ HasRecord(StoreAfter, b, id))
              => LET before == RecordOf(Store, b, id)
                     after == RecordOf(StoreAfter, b, id)
                 IN  /\ (after.state = "FAILED" /\ before.state # "FAILED")
                            => /\ after.retry_count = before.retry_count + 1
                               /\ after.error_message # None
                     /\ after.retry_count # before.retry_count
                            => /\ after.state = "FAILED"
                               /\ after.retry_count = before.retry_count + 1]_vars

\* C9: after every operation of the store, the file of each loaded board
\* holds exactly the board held in memory.
C9_WriteThrough ==
    \A b \in Boards :
        boards[b].loaded => load_board_state(files, b) = boards[b]

\* A loaded board with a post that failed once and has a failed image.
C9_Witness ==
    \E b \in Boards, id \in PostIds :
        /\ boards[b].loaded
        /\ id \in DOMAIN boards[b].posts
        /\ boards[b].posts[id].retry_count = 1
        /\ boards[b].posts[id].failed_images # <<>>
        /\ files[b].exists

\* The placeholders of the body are numbered as the image urls are: the
\* k-th placeholder is placeholder k-1 and stands for image_urls[k].
PlaceholdersNumbered ==
    LET placeholders == SelectSeq(shuimu.content, IsPlaceholder)
    IN  [k \in DOMAIN placeholders |-> placeholders[k].index]
            = [k \in DOMAIN shuimu.image_urls |-> k - 1]

\* C10: for a body whose placeholders are numbered as its image urls, the
\* written document holds no placeholder token, whichever images failed;
\* and for the images <<u0, u1, u2>> with u1 failed and u0, u2 downloaded
\* it holds exactly two image references, u0's then u2's.
C10_PlaceholdersResolved ==
    (shuimu.pc = "saved" /\ PlaceholdersNumbered)
        => /\ SelectSeq(markdown, IsPlaceholder) = <<>>
           /\ (/\ shuimu.image_urls = <<"u0", "u1", "u2">>
               /\ shuimu.image_paths[1] # NoPath
               /\ shuimu.image_paths[2] = NoPath
               /\ shuimu.image_paths[3] # NoPath)
                  => [k \in 1..2 |-> SelectSeq(markdown, IsImage)[k].path]
                         = <<shuimu.image_paths[1], shuimu.image_paths[3]>>

\* C11: in the written document of a body whose placeholders are numbered
\* as its image urls, every image reference stands where its own
\* placeholder stood: the reference at the place of placeholder i holds the
\* path of the image downloaded from image_urls[i].
C11_ImagesAtOwnPlaceholder ==
    (shuimu.pc = "saved" /\ PlaceholdersNumbered)
        => \A j \in DOMAIN markdown :
               IsImage(markdown[j])
                   => /\ IsPlaceholder(shuimu.content[j])
                      /\ markdown[j].path
                             = shuimu.image_paths[shuimu.content[j].index + 1]

\* C12: the listing of page p+1 is not fetched before every post task of
\* page p has finished: while the listing request of page p+1 is out, the
\* task of page p is done.
C12_PageBarrier ==
    \A p \in DOMAIN shuimu_pages :
        (p > 1 /\ shuimu_pages[p].pc = "listing")
            => shuimu_pages[p - 1].pc = "done"

\* A listing none of whose rows yields a post id.
NoSummary(posts) == \A k \in DOMAIN posts : posts[k] = NoId

\* C13: crawl_board stops after a listing request only when the request
\* failed or the listing yields no post; after a listing that yields a post
\* (even one skipped as already completed) it goes on to the next page.
C13_StopsOnlyOnEmptyListing ==
    [][\A b \in Boards :
          (crawl[b].pc = "fetch_inflight" /\ crawl'[b].pc = "done")
              => \/ BoardFetchFailed(b)
                 \/ \E posts \in Listings :
                        NoSummary(posts) /\ BoardListed(b, posts)]_vars

\* The step in which the task of row k of board b gives up its post: the
\* detail fetch has spent its last attempt (or has none), or nothing could
\* be extracted from the detail page.
TaskGivesUp(b, k) ==
    /\ k \in 1..Len(tasks[b])
    /\ k \in 1..Len(tasks'[b])
    /\ tasks'[b][k].pc = "done"
    /\ \/ TaskStart(b, k)
       \/ TaskFetchFailed(b, k)
       \/ TaskExtractionFailed(b, k)

\* C14: when the detail fetch or the extraction of a post fails, the post
\* becomes Failed and the task returns: no image request is sent, no
\* document is written and no image outcome is recorded for the post.
C14_FailureReturnsAtOnce ==
    [][\A b \in Boards, k \in Rows :
          TaskGivesUp(b, k)
              => LET id == tasks[b][k].post_id
                     after == RecordOf(StoreAfter, b, id)
                 IN  /\ after.state = "FAILED"
                     /\ documents' = documents
                     /\ tasks'[b][k].images = 0
                     /\ HasRecord(Store, b, id)
                            => /\ after.downloaded_images
                                      = RecordOf(Store, b, id).downloaded_images
                               /\ after.failed_images
                                      = RecordOf(Store, b, id).failed_images
                     /\ ~HasRecord(Store, b, id)
                            => /\ after.downloaded_images = <<>>
                               /\ after.failed_images = <<>>]_vars

\* A task has ended on a failed detail request: its post is failed and has
\* no document.
C14_Witness ==
    \E b \in Boards, k \in Rows :
        /\ k <= Len(tasks[b])
        /\ tasks[b][k].pc = "done"
        /\ tasks[b][k].images = 0
        /\ <<b, tasks[b][k].post_id>> \in requested
        /\ RecordOf(Store, b, tasks[b][k].post_id).state = "FAILED"
        /\ tasks[b][k].post_id \notin documents[b]

\* C15: a task leaves its post Completed only if the document of the post
\* has been written, and leaves it Failed when writing the document raised.
C15_CompletedOnlyAfterWrite ==
    [][\A b \in Boards, k \in Rows :
          (k <= Len(tasks[b]) /\ k <= Len(tasks'[b])
           /\ tasks[b][k].pc # "done" /\ tasks'[b][k].pc = "done")
              => LET id == tasks[b][k].post_id
                     after == RecordOf(StoreAfter, b, id)
                 IN  /\ after.state = "COMPLETED" => id \in documents'[b]
                     /\ TaskDocumentFailed(b, k) => after.state = "FAILED"]_vars

\* C16: a download_image whose target file is already on disk returns the
\* path of the file at once: it sends no request (none is pending for it)
\* and the files on disk stay as they are.
C16_ExistingFileShortCircuit ==
    [][(shuimu.pc = "idle" /\ shuimu'.pc = "gather")
          => /\ image_files' = image_files
             /\ \A k \in DOMAIN shuimu'.image_urls :
                    LET image_path ==
                            ImagePath(ShuimuPost.post_id, shuimu'.image_urls[k])
                    IN  image_path \in image_files
                            => shuimu'.image_paths[k] = image_path]_vars

\* The downloads of a post with two images have begun: the first image was
\* on disk and is returned, the second one is being requested.
C16_Witness ==
    /\ shuimu.pc = "gather"
    /\ shuimu.image_urls = <<"u0", "u1">>
    /\ image_files = {ImagePath(ShuimuPost.post_id, "u0")}
    /\ shuimu.image_paths = <<ImagePath(ShuimuPost.post_id, "u0"), Pending>>

\* C17: a body shorter than the announced Content-Length never writes a
\* file, and on the first attempt it is retried; when the second attempt
\* then delivers the full body, the call ends after these two requests with
\* the file written, its path returned and the url not recorded as failed.
C17_TruncatedThenFull ==
    [][\A c \in DOMAIN downloads :
           /\ (/\ downloads[c].pc = "request"
               /\ downloads'[c].log = Append(downloads[c].log, "truncated"))
                  => /\ image_files' = image_files
                     /\ downloads[c].log = <<>> => downloads'[c].pc = "sleep"
           /\ (/\ downloads[c].log = <<"truncated">>
               /\ downloads'[c].log = <<"truncated", "ok">>)
                  => /\ downloads'[c].pc = "returned"
                     /\ downloads'[c].result = DownloadPath(c)
                     /\ DownloadPath(c) \in image_files'
                     /\ downloads[c].image_url \notin failed_images'
      ]_vars

C17_Witness ==
    \E c \in DOMAIN downloads :
        /\ downloads[c].pc = "returned"
        /\ downloads[c].log = <<"truncated", "ok">>
        /\ downloads[c].attempt = 1
        /\ downloads[c].result = DownloadPath(c)
        /\ DownloadPath(c) \in image_files
        /\ downloads[c].image_url \notin failed_images

\* C18: when an image request of a post fails, the failure is recorded in
\* the post's record, the image is left out of the document, and the save
\* of the post goes on to the next image or to writing the document.
C18_ImageFailureRecorded ==
    [][\A b \in Boards, k \in Rows :
          TaskImageDone(b, k, FALSE)
              => /\ tasks'[b][k].pc \in {"image_inflight", "write_md"}
                 /\ tasks'[b][k].linked = tasks[b][k].linked
                 /\ RecordOf(Store, b, tasks[b][k].post_id)'.failed_images
                        # <<>>
      ]_vars

\* C19: a listing fetch whose page is within the limits sends a first
\* request whatever max_retries is, and it reports failure only after
\* max_retries + 1 requests have failed (the first and max_retries retries).
C19_FirstRequestThenRetries ==
    [][\A b \in Boards :
          /\ (/\ BoardLoop(b)
              /\ ~(config.max_pages # 0 /\ crawl[b].page > config.max_pages)
              /\ ~(config.max_posts # 0
                   /\ board_posts[b] >= config.max_posts))
                 => crawl'[b].pc \in {"fetch_inflight", "fetch_wait"}
          /\ (BoardFetchFailed(b) /\ crawl'[b].pc = "done")
                 => crawl[b].attempt + 1 = config.max_retries + 1
      ]_vars

\* C20: a state file that cannot be parsed does not keep any configured
\* board from being crawled: constructing the crawler does not raise.
C20_UnparsableStateIsolated ==
    \A b \in config.boards :
        (seed[b].exists /\ ~seed[b].parsable)
            => \A c \in config.boards : crawl[c].pc # "raised"

\* C21: whenever a document file is there at its final path, it is the
\* complete document, also after a crash in the middle of a write.
C21_DocumentNeverPartial ==
    shuimu.document # "absent" => shuimu.document = "complete"

NoDuplicates(list) ==
    \A j, k \in 1..Len(list) : list[j] = list[k] => j = k

IsPrefix(list, longer) ==
    Len(list) <= Len(longer) /\ SubSeq(longer, 1, Len(list)) = list

\* C22: recording an image outcome that is already recorded changes
\* nothing, and over any step each image list of a post keeps its entries
\* in place (new ones go to the end) and holds no entry twice.
C22_ImageRecordingIdempotent ==
    [][\A b \in config.boards, id \in PostIds :
          HasRecord(Store, b, id)
              => LET post == RecordOf(Store, b, id)
                     after == RecordOf(StoreAfter, b, id)
                 IN  /\ HasRecord(StoreAfter, b, id)
                     /\ IsPrefix(post.downloaded_images,
                                 after.downloaded_images)
                     /\ IsPrefix(post.failed_images, after.failed_images)
                     /\ NoDuplicates(after.downloaded_images)
                     /\ NoDuplicates(after.failed_images)
                     /\ \A image \in ImageEntries :
                            /\ (/\ StoreAddDownloadedImage(b, id, image)
                                /\ InList(image, post.downloaded_images))
                                   => after = post
                            /\ (/\ StoreAddFailedImage(b, id, image)
                                /\ InList(image, post.failed_images))
                                   => after = post
      ]_vars

\* Both images were recorded as downloaded, i2 first, and both as failed,
\* i1 first.
C22_Witness ==
    \E id \in PostIds :
        /\ HasRecord(Store, "b1", id)
        /\ RecordOf(Store, "b1", id).downloaded_images = <<"i2", "i1">>
        /\ RecordOf(Store, "b1", id).failed_images = <<"i1", "i2">>

\* C23: no image of a post is recorded both as downloaded and as failed.
C23_ImageListsDisjoint ==
    \A b \in config.boards, id \in PostIds :
        HasRecord(Store, b, id)
            => \A image \in ImageEntries :
                   ~(/\ InList(image, RecordOf(Store, b, id).downloaded_images)
                     /\ InList(image, RecordOf(Store, b, id).failed_images))

\* The edges of the lifecycle of a post.
LifecycleEdge(post, state) ==
    \/ post.state = "PENDING" /\ state = "PROCESSING"
    \/ post.state = "PROCESSING" /\ state \in {"COMPLETED", "FAILED"}
    \/ /\ post.state = "FAILED" /\ state = "RETRY"
       /\ post.retry_count < config.max_retries
    \/ post.state = "RETRY" /\ state = "PROCESSING"

\* C24: every change of the state of a recorded post during a crawl follows
\* an edge of the lifecycle: Pending to Processing, Processing to Completed
\* or Failed, Failed to Retry while retries are left, Retry to Processing.
C24_LifecycleEdgesOnly ==
    [][\A b \in config.boards, id \in PostIds :
          (/\ HasRecord(Store, b, id)
           /\ HasRecord(StoreAfter, b, id)
           /\ RecordOf(StoreAfter, b, id).state # RecordOf(Store, b, id).state)
              => LifecycleEdge(RecordOf(Store, b, id),
                               RecordOf(StoreAfter, b, id).state)
      ]_vars

\* The value sets the specification rejects.
NotPositive(limit) == limit # <<>> /\ limit[1] <= 0

\* C25: construction fails exactly when maxConcurrentTasks, retryDelay,
\* timeout, or a set maxPages or maxPosts is not positive, maxRetries is
\* negative, or baseUrl or the board url is not an http(s) url; it succeeds
\* otherwise.
C25_ConfigValidation ==
    config.constructed # "no"
        => (config.constructed = "ValueError"
               <=> \/ config.max_concurrent_tasks <= 0
                   \/ config.retry_delay <= 0
                   \/ config.timeout <= 0
                   \/ NotPositive(config.max_pages)
                   \/ NotPositive(config.max_posts)
                   \/ config.max_retries < 0
                   \/ ~IsHttp(config.base_url)
                   \/ ~IsHttp(config.url))

\* C26: loading a board with no state file gives a fresh empty state, and
\* loading a board whose state was saved gives back that state, every
\* field of every post included.
C26_SaveLoadRoundTrip ==
    [][\A b \in config.boards :
          AsWrittenLoad(b)
              => /\ ~files[b].exists => boards'[b] = BoardState
                 /\ (files[b].exists /\ boards[b] \in SavedBoards)
                        => boards'[b] = boards[b]
      ]_vars

\* A data row that is not pinned and has a link in its title cell.
IsPostRow(row) == row.cells /\ ~row.top /\ row.link # NoLink

\* C27: the summaries extracted from a listing page are exactly its data
\* rows with a linked title, in document order; header rows, pinned rows
\* and rows without a link give none.
C27_ListingExtraction ==
    (DOMAIN shuimu_pages = {1} /\ shuimu_pages[1].pc = "parsed")
        => shuimu_pages[1].posts =
               Links(SelectSeq(shuimu_pages[1].rows, IsPostRow))

\* A step in which the processing of post k of the page fails.
TaskFails(b, k) ==
    \/ TaskFetchFailed(b, k) /\ tasks'[b][k].pc = "done"
    \/ TaskExtractionFailed(b, k)
    \/ TaskMetadataFailed(b, k)
    \/ TaskDocumentFailed(b, k)

\* The failure stays with its task: the other tasks of the page and the
\* crawl of the board are where they were.
TaskFailureContained(b, k) ==
    /\ \A j \in 1..Len(tasks[b]) : j # k => tasks'[b][j] = tasks[b][j]
    /\ Len(tasks'[b]) = Len(tasks[b])
    /\ crawl' = crawl

\* C28: when the processing of a post fails (fetch, extraction or save),
\* the post is recorded as failed, and the other tasks of the page and the
\* crawl of the board go on as before.
C28_PostFailureIsolated ==
    [][\A b \in Boards, k \in Rows :
          TaskFails(b, k)
              => /\ RecordOf(StoreAfter, b, tasks[b][k].post_id).state
                        = "FAILED"
                 /\ TaskFailureContained(b, k)
      ]_vars

\* C29: with max_posts set, the posts dispatched for a board in the run
\* never exceed it, on one page or over all pages; with max_pages set, no
\* listing page beyond it is requested or waited for.
C29_LimitsRespected ==
    \A b \in config.boards :
        /\ config.max_posts # 0
               => /\ board_posts[b] <= config.max_posts
                  /\ Len(tasks[b]) <= config.max_posts
        /\ (/\ config.max_pages # 0
            /\ crawl[b].pc \in {"fetch_wait", "fetch_inflight", "gather"})
               => crawl[b].page <= config.max_pages

\* A board with both limits 1 has dispatched its one post, p2, and has
\* stopped before page 2.
C29_Witness ==
    /\ config.max_posts = 1
    /\ config.max_pages = 1
    /\ board_posts["b1"] = 1
    /\ Len(tasks["b1"]) = 1
    /\ tasks["b1"][1].post_id = "p2"
    /\ crawl["b1"].pc = "done"
    /\ crawl["b1"].page = 2

\* C30: two distinct completed posts never share a document path, and each
\* completed post has its own document on disk: none is overwritten by the
\* document of another post, also when their sanitised titles are equal.
C30_OneDocumentPerCompletedPost ==
    \A b \in config.boards :
        \A j \in 1..Len(tasks[b]), k \in 1..Len(tasks[b]) :
            (/\ j # k
             /\ tasks[b][j].post_id # tasks[b][k].post_id
             /\ tasks[b][j].pc = "done"
             /\ tasks[b][k].pc = "done"
             /\ RecordOf(Store, b, tasks[b][j].post_id).state = "COMPLETED"
             /\ RecordOf(Store, b, tasks[b][k].post_id).state = "COMPLETED")
                => /\ md_path(b, tasks[b][j].title)
                          # md_path(b, tasks[b][k].title)
                   /\ tasks[b][j].post_id \in documents[b]
                   /\ tasks[b][k].post_id \in documents[b]

\* The fetches that hold a slot: those whose request is in flight.
SlotsHeld ==
    Cardinality({b \in Boards : crawl[b].pc = "fetch_inflight"})
    + Cardinality({<<b, k>> \in Boards \X Rows :
                      /\ k <= Len(tasks[b])
                      /\ tasks[b][k].pc = "fetch_inflight"})

\* C31: between two attempts of a fetch the slot is released.  A fetch that
\* goes on to its next attempt gives its slot back and waits without one,
\* the slots are held by the fetches in flight and by no waiting fetch, and
\* a waiting fetch starts its attempt by taking a free slot.
C31_SlotReleasedBetweenAttempts ==
    [][/\ semaphore' + SlotsHeld' = config.max_concurrent_tasks
       /\ \A b \in Boards :
              /\ crawl'[b].attempt = crawl[b].attempt + 1
                     => /\ crawl'[b].pc = "fetch_wait"
                        /\ semaphore' = semaphore + 1
              /\ (crawl[b].pc = "fetch_wait" /\ crawl'[b].pc = "fetch_inflight")
                     => /\ semaphore > 0
                        /\ semaphore' = semaphore - 1
              /\ \A k \in 1..Len(tasks[b]) :
                     (/\ k <= Len(tasks'[b])
                      /\ tasks'[b][k].post_id = tasks[b][k].post_id)
                         => /\ tasks'[b][k].attempt = tasks[b][k].attempt + 1
                                => /\ tasks'[b][k].pc = "fetch_wait"
                                   /\ semaphore' = semaphore + 1
                            /\ (/\ tasks[b][k].pc = "fetch_wait"
                                /\ tasks'[b][k].pc = "fetch_inflight")
                                   => /\ semaphore > 0
                                      /\ semaphore' = semaphore - 1
      ]_vars

\* A post fetch waits for its second attempt without a slot while the
\* fetches in flight hold every slot.
C31_Witness ==
    \E b \in Boards : \E k \in 1..Len(tasks[b]) :
        /\ tasks[b][k].pc = "fetch_wait"
        /\ tasks[b][k].attempt >= 1
        /\ semaphore = 0
        /\ SlotsHeld = config.max_concurrent_tasks

\* C32: the placeholders of an extracted body are numbered 0, 1, 2, ...
\* without gaps in document order, one for each recorded image url, so that
\* placeholder i stands for the i-th url, also when some image elements of
\* the cell carry no source url.
C32_PlaceholdersSequential ==
    LET placeholders == SelectSeq(shuimu.content, IsPlaceholder)
    IN  /\ Len(placeholders) = Len(shuimu.image_urls)
        /\ \A k \in DOMAIN placeholders : placeholders[k].index = k - 1

\* A state transition or an image recording for post id of board b.
RecordingStep(b, id) ==
    \/ \E state \in PostState, error \in Errors :
           StoreUpdatePostState(b, id, state, error)
    \/ \E image \in ImageEntries : StoreAddDownloadedImage(b, id, image)
    \/ \E image \in ImageEntries : StoreAddFailedImage(b, id, image)

\* C33: a state transition or an image recording for a post that has no
\* record is a no-op: no record is created, no record of the board changes
\* and no file is written; a record appears only by add_post for that post.
C33_UnknownPostIsNoOp ==
    [][\A b \in config.boards, id \in PostIds :
          ~HasRecord(Store, b, id)
              => /\ RecordingStep(b, id)
                       => /\ files' = files
                          /\ ~HasRecord(StoreAfter, b, id)
                          /\ BoardOf(StoreAfter, b) = BoardOf(Store, b)
                 /\ HasRecord(StoreAfter, b, id) => StoreAddPost(b, id)
      ]_vars

\* A board was read for a transition or a recording of a post without a
\* record while another post of the board has one: the board is loaded,
\* the other post is tracked and the post itself is not.
C33_Witness ==
    /\ boards["b1"].loaded
    /\ DOMAIN boards["b1"].posts = {"p2"}
    /\ files["b1"].exists
    /\ DOMAIN files["b1"].posts = {"p2"}
    /\ boards["b1"].posts["p2"].state = "FAILED"

\* A StateStore mutation for post id of board b.
MutationStep(b, id) == RecordingStep(b, id) \/ StoreAddPost(b, id)

\* C34: a StateStore mutation for post p of board b changes only p's record:
\* the records of the other posts of b, in memory and in the file, b's
\* last_page and the state and file of every other board stay as they
\* were; and no StateStore operation changes a last_page.
C34_MutationFrame ==
    [][/\ \A b \in config.boards, id \in PostIds :
              MutationStep(b, id)
                  => /\ \A q \in PostIds \ {id} :
                            /\ HasRecord(StoreAfter, b, q)
                                   <=> HasRecord(Store, b, q)
                            /\ HasRecord(Store, b, q)
                                   => RecordOf(StoreAfter, b, q)
                                          = RecordOf(Store, b, q)
                            /\ (files[b].exists /\ q \in DOMAIN files[b].posts)
                                   => /\ q \in DOMAIN files'[b].posts
                                      /\ files'[b].posts[q] = files[b].posts[q]
                     /\ \A c \in Boards \ {b} :
                            boards'[c] = boards[c] /\ files'[c] = files[c]
       /\ \A b \in Boards :
              /\ BoardOf(StoreAfter, b).last_page = BoardOf(Store, b).last_page
              /\ files'[b].last_page = files[b].last_page
      ]_vars

\* A mutation for post p1 was saved next to the record of post p2, under
\* the last page the file had, while the other board has a file of its own.
C34_Witness ==
    /\ files["b1"].last_page = 2
    /\ DOMAIN files["b1"].posts = {"p1", "p2"}
    /\ files["b1"].posts["p1"].state = "completed"
    /\ files["b1"].posts["p2"] = SeededFile.posts["p2"]
    /\ files["b2"] = SeededFile

\* C35: every fetch attempt gives back its slot however it ends: whenever no
\* fetch request is in flight every slot is free, so a fetch that waits for
\* a slot then finds one.
C35_NoSlotLeaked ==
    SlotsHeld = 0 => /\ semaphore = config.max_concurrent_tasks
                     /\ semaphore > 0

\* Attempts have ended in a failure and in a response, a fetch waits for its
\* next attempt, no request is in flight and every slot is free.
C35_Witness ==
    /\ SlotsHeld = 0
    /\ semaphore = config.max_concurrent_tasks
    /\ \E b \in Boards :
           /\ crawl[b].pc = "gather"
           /\ \E k \in 1..Len(tasks[b]) :
                  /\ tasks[b][k].pc = "fetch_wait"
                  /\ tasks[b][k].attempt >= 1

\* Crawler.start has returned: the page loop of every board has exited, by
\* a break or by an exception, and every task it dispatched has finished.
Terminated ==
    \A b \in Boards :
        /\ crawl[b].pc \in {"off", "done", "raised"}
        /\ \A k \in 1..Len(tasks[b]) : tasks[b][k].pc = "done"

\* C36: when every network attempt ends and the listing of a board yields
\* an empty page in the end, every dispatched post task finishes, the page
\* loop of every board exits and start() returns.
C36_CrawlTerminates == <>Terminated

\* The crawl ended after it went through more than one page and dispatched
\* tasks, all of which have finished.
C36_Witness ==
    /\ Terminated
    /\ \E b \in config.boards :
           /\ crawl[b].pc = "done"
           /\ crawl[b].page > 1
           /\ dispatched[b] # {}

\* C37: whenever no download is in flight, an image url that was downloaded
\* is in failed_images only if its target file is not on disk, also after
\* two concurrent downloads of the same url for the same post.
C37_FailedImageHasNoFile ==
    (\A c \in DOMAIN downloads : downloads[c].pc = "returned")
        => \A c \in DOMAIN downloads :
               downloads[c].image_url \in failed_images
                   => DownloadPath(c) \notin image_files

\* C38: once the process_post tasks have finished, no post is both among
\* the downloaded files and in failed_posts: every post left in
\* failed_posts is one that retry_failed_items will process again and not
\* pass over as downloaded.
C38_FailedPostIsRetried ==
    AllPostTasksReturned
        => \A f \in failed_posts :
               shuimu_safe_filename(f.title) \notin downloaded_files

\* C39: within one run of a board a post identifier is dispatched at most
\* once: the tasks created for a page are for identifiers that differ from
\* one another and from every identifier a task was created for before.
C39_DispatchedAtMostOnce ==
    [][\A b \in Boards :
          (crawl[b].pc = "fetch_inflight" /\ crawl'[b].pc = "gather")
              => \A k \in 1..Len(tasks'[b]) :
                     /\ tasks'[b][k].post_id \notin dispatched[b]
                     /\ \A j \in 1..Len(tasks'[b]) :
                            j # k => tasks'[b][j].post_id
                                         # tasks'[b][k].post_id
      ]_vars

=============================================================================
